---- MODULE Spec2Model ----
(***************************************************************************)
(* A state-machine model of the Game Boy emulator core (gb-emu): the       *)
(* MBC1 cartridge, work/high RAM, the address bus, the CPU step with its   *)
(* interrupt controller, the DIV/TIMA timer and the OAM DMA engine.        *)
(*                                                                         *)
(* Every component is a group of variables named after the fields of the   *)
(* Rust struct it models.  Functions of the source are operators over a    *)
(* record of the emulator state (the globals *_CTX of the source), so that *)
(* a handler that makes several calls in sequence is one action.           *)
(*                                                                         *)
(* Memories are zero-initialised arrays in the source; here a memory is a  *)
(* function defined on the cells written so far, every other cell reads 0. *)
(* std::process::exit and Rust panics end the emulator: exited = TRUE, and *)
(* no action is enabled afterwards.                                        *)
(***************************************************************************)
EXTENDS Integers, Sequences, FiniteSets, TLC

(***************************************************************************)
(* Fixed-width arithmetic                                                  *)
(***************************************************************************)
RECURSIVE BitAnd(_, _)
BitAnd(x, y) ==
    IF x = 0 \/ y = 0 THEN 0
    ELSE (x % 2) * (y % 2) + 2 * BitAnd(x \div 2, y \div 2)

BitOr(x, y) == x + y - BitAnd(x, y)

BitNot8(x) == 255 - x

U8(x) == x % 256

U16(x) == x % 65536

Hi(x) == (x \div 256) % 256

Lo(x) == x % 256

Byte == 0..255

(***************************************************************************)
(* Zero-initialised memories                                               *)
(***************************************************************************)
EmptyMem == [x \in {} |-> 0]

Peek(mem, i) == IF i \in DOMAIN mem THEN mem[i] ELSE 0

\* a zero byte is stored as the absence of the entry
Poke(mem, i, v) ==
    IF v = 0 THEN [x \in (DOMAIN mem) \ {i} |-> mem[x]]
    ELSE [x \in (DOMAIN mem) \cup {i} |-> IF x = i THEN v ELSE mem[x]]

VARIABLES
    \* CPU (struct CPU, struct Registers)
    registers,                  \* [a, f, b, c, d, e, h, l, pc, sp]
    halted,
    interrupt_master_enabled,
    enabling_ime,
    int_flags,
    ie_register,
    opcode,
    fetched_data,
    \* Cartridge
    cartridge,                  \* record, see CartridgeInit
    \* RAM
    wram,
    hram,
    \* Timer
    timer,                      \* [div, tima, tma, tac]
    \* DMA, LCD register 0xFF46, PPU OAM
    dma,                        \* [active, byte, value, start_delay]
    lcd_dma,
    oam_ram,
    \* PPU and LCD registers
    ppu,                        \* record, see PpuDefault
    lcd,                        \* record, see LcdDefault
    \* process
    exited,
    \* position of the CPU inside CPU::step, and observations of the run
    cpu_pos,
    served,
    steps,
    entry,                      \* the CPU as the current step found it
    tick_ret,
    tick_inc,
    anchor,
    since,
    incs,
    nticks,
    last_read,                  \* the byte the last bus read returned
    bus_op,                     \* the last bus access, see BusObsDefault
    frame_obs,                  \* PPU ticks around frame ends, see PpuObsDefault
    clock_obs,                  \* device ticks and M-cycles, see PpuObsDefault
    \* I/O registers (io.rs), game pad (GAMEPAD_CTX), debug buffer (dbg.rs)
    gamepad,                    \* [button_select, dir_select, controller]
    serial_data,                \* <<byte of 0xFF01, byte of 0xFF02>>
    dbg_msg,                    \* the first msg_size bytes of dbg_msg
    serial_obs,                 \* the bytes the guest has sent, see IoDefault
    \* UI thread (ui.rs run)
    ui                          \* [pos, prev_frame]

cpuVars == <<registers, halted, interrupt_master_enabled, enabling_ime,
             int_flags, ie_register, opcode, fetched_data>>

memVars == <<cartridge, wram, hram>>

dmaVars == <<dma, lcd_dma, oam_ram>>

ppuVars == <<ppu, lcd>>

cpuObs == <<cpu_pos, served, steps, entry>>

timerObs == <<tick_ret, tick_inc, anchor, since, incs>>

busObs == <<last_read, bus_op>>

ioVars == <<gamepad, serial_data, dbg_msg, serial_obs, ui>>

vars == <<cpuVars, memVars, timer, dmaVars, ppuVars, exited, cpuObs,
          timerObs, nticks, busObs, frame_obs, clock_obs, ioVars>>

(***************************************************************************)
(* Cartridge (cartridge.rs)                                                *)
(*                                                                         *)
(* rom_bank_x and ram_bank are raw pointers in the source; here rom_bank_x *)
(* is the offset into rom the pointer was taken at, and ram_bank is the    *)
(* index of the bank it points to, or NullBank for the null pointer.       *)
(* ext_ram[b] is the content of the bank ram_banks[b].  rom is the image   *)
(* load_rom_file read from the ROM file, rom_size its length.              *)
(* battery_file is the content of the file <title>.sav that save_battery   *)
(* writes, empty as long as there is none.                                 *)
(***************************************************************************)
NullBank == 0 - 1

BankSize == 16384

RamWindow == 40960

mbc1(c) == c.cartridge_type \in {1, 2, 3}

has_battery(c) == c.cartridge_type \in {3, 6, 9, 13, 15, 16, 19, 23, 27, 30}

\* ram_banks[i] after setup_banking: allocated or null
ram_banks(c, i) ==
    IF \/ (c.ram_size = 2 /\ i = 0)
       \/ (c.ram_size = 3 /\ i < 4)
       \/ (c.ram_size = 4 /\ i < 16)
       \/ (c.ram_size = 5 /\ i < 8)
    THEN i ELSE NullBank

\* load_rom_file, setup_banking: the cartridge after a ROM of rom_size zero
\* bytes with the given header bytes has been loaded
CartridgeInit(ctype, rsize, romsize) ==
    LET h == [cartridge_type |-> ctype, ram_size |-> rsize] IN
    [cartridge_type |-> ctype,
     ram_size       |-> rsize,
     rom            |-> EmptyMem,
     rom_size       |-> romsize,
     ram_enabled    |-> FALSE,
     ram_banking    |-> FALSE,
     rom_bank_x     |-> BankSize,
     banking_mode   |-> 0,
     rom_bank_value |-> 0,
     ram_bank_value |-> 0,
     ram_bank       |-> ram_banks(h, 0),
     ext_ram        |-> [b \in 0..15 |-> EmptyMem],
     need_save      |-> FALSE,
     battery_file   |-> EmptyMem]

\* The bytes of seq at the addresses from base on, as a memory
Image(seq, base) ==
    [i \in {base + k - 1 : k \in {j \in 1..Len(seq) : seq[j] # 0}} |->
         seq[i - base + 1]]

\* load_rom_file: the cartridge holding the image
load_rom_file(c, image) == [c EXCEPT !.rom = image]

need_save(c) == c.need_save

\* Cartridge::save_battery: the first 0x2000 bytes of ram_banks[0] go to the
\* battery file; self is borrowed immutably and no field of the cartridge
\* object changes
save_battery(c) == [c EXCEPT !.battery_file = c.ext_ram[0]]

\* `if need_save() { save_battery() }`, as PPU::mode_hblank does at the entry
\* to VBLANK and Cartridge::write does before it switches the RAM bank
save_if_needed(c) == IF need_save(c) THEN save_battery(c) ELSE c

\* Cartridge::read with the bank-0 window read through the pointer of the
\* switchable bank
Cartridge_read_banked(c, address) ==
    IF mbc1(c) /\ address < 16384
    THEN [kind |-> "rom", idx |-> c.rom_bank_x - BankSize + address,
          val |-> Peek(c.rom, c.rom_bank_x - BankSize + address)]
    ELSE [kind |-> "ff", idx |-> 0, val |-> 255]

\* Cartridge::read: what the code dereferences.
\*   kind "rom"   the byte val = rom[idx] of the image
\*   kind "ram"   the byte val of the selected external RAM bank
\*   kind "ff"    the constant 0xFF
\*   kind "panic" a bounds-checked index outside rom: the process ends
\*   kind "wild"  a raw-pointer read outside rom: any byte, or a fault
Cartridge_read(c, address) ==
    IF ~mbc1(c) \/ address < 16384
    THEN IF address < c.rom_size
         THEN [kind |-> "rom", idx |-> address, val |-> Peek(c.rom, address)]
         ELSE [kind |-> "panic", idx |-> address, val |-> 0]
    ELSE IF BitAnd(address, 57344) = RamWindow
    THEN IF ~c.ram_enabled
         THEN [kind |-> "ff", idx |-> 0, val |-> 255]
         ELSE IF c.ram_bank = NullBank
         THEN [kind |-> "ff", idx |-> 0, val |-> 255]
         ELSE [kind |-> "ram", idx |-> address - RamWindow,
               val |-> Peek(c.ext_ram[c.ram_bank], address - RamWindow)]
    ELSE LET i == c.rom_bank_x + (address - 16384) IN
         IF i < c.rom_size
         THEN [kind |-> "rom", idx |-> i, val |-> Peek(c.rom, i)]
         ELSE [kind |-> "wild", idx |-> i, val |-> 0]

\* The bank-select branch of Cartridge::write (0x2000-0x3FFF): the bank
\* number the register takes for a written byte
RomBankSelect(data) == BitAnd(IF data = 0 THEN 1 ELSE data, 31)

\* The end of Cartridge::write: a cartridge with a battery is marked for
\* saving
mark_save(c) == IF has_battery(c) THEN [c EXCEPT !.need_save = TRUE] ELSE c

\* Cartridge::write.  Returns [c |-> cartridge, panic |-> the index into rom
\* was out of range].  The four selector tests exclude each other, so the
\* sequence of ifs of the source is a choice of one branch.
Cartridge_write(c, address, data) ==
    IF ~mbc1(c) THEN [c |-> c, panic |-> FALSE]
    ELSE IF address < 8192
    THEN [c |-> [c EXCEPT !.ram_enabled = (BitAnd(data, 15) = 10)],
          panic |-> FALSE]
    ELSE IF BitAnd(address, 57344) = 8192
    THEN IF RomBankSelect(data) * BankSize >= c.rom_size
         THEN [c |-> c, panic |-> TRUE]
         ELSE [c |-> mark_save([c EXCEPT
                         !.rom_bank_value = RomBankSelect(data),
                         !.rom_bank_x = RomBankSelect(data) * BankSize]),
               panic |-> FALSE]
    ELSE IF BitAnd(address, 57344) = 16384
    THEN [c |-> mark_save([(IF c.ram_banking THEN save_if_needed(c) ELSE c)
                    EXCEPT
                    !.ram_bank_value = BitAnd(data, 3),
                    !.ram_bank = ram_banks(c, BitAnd(data, 3))]),
          panic |-> FALSE]
    ELSE IF BitAnd(address, 57344) = 24576
    THEN [c |-> mark_save([c EXCEPT
                    !.banking_mode = BitAnd(data, 1),
                    !.ram_banking = (BitAnd(data, 1) > 0),
                    !.ram_bank = IF BitAnd(data, 1) > 0
                                 THEN ram_banks(c, c.ram_bank_value)
                                 ELSE @]),
          panic |-> FALSE]
    ELSE IF BitAnd(address, 57344) = RamWindow
    THEN IF c.ram_enabled /\ c.ram_bank # NullBank
         THEN [c |-> mark_save([c EXCEPT !.ext_ram[c.ram_bank] =
                                    Poke(@, address - RamWindow, data)]),
               panic |-> FALSE]
         ELSE [c |-> c, panic |-> FALSE]
    ELSE [c |-> mark_save(c), panic |-> FALSE]

(***************************************************************************)
(* RAM (ram.rs)                                                            *)
(***************************************************************************)
wram_read(w, address) == Peek(w, address - 49152)

wram_write(w, address, value) == Poke(w, address - 49152, value)

hram_read(h, address) == Peek(h, address - 65408)

hram_write(h, address, value) == Poke(h, address - 65408, value)

(***************************************************************************)
(* The emulator context: the globals the functions of the source work on.  *)
(***************************************************************************)
Ctx ==
    [registers |-> registers, halted |-> halted,
     interrupt_master_enabled |-> interrupt_master_enabled,
     enabling_ime |-> enabling_ime, int_flags |-> int_flags,
     ie_register |-> ie_register, opcode |-> opcode,
     fetched_data |-> fetched_data,
     cartridge |-> cartridge, wram |-> wram, hram |-> hram,
     timer |-> timer, dma |-> dma, lcd_dma |-> lcd_dma, oam_ram |-> oam_ram,
     ppu |-> ppu, lcd |-> lcd, exited |-> exited, clock |-> clock_obs,
     gamepad |-> gamepad, serial_data |-> serial_data, dbg_msg |-> dbg_msg,
     sent |-> serial_obs, ui |-> ui]

Commit(n) ==
    /\ registers' = n.registers
    /\ halted' = n.halted
    /\ interrupt_master_enabled' = n.interrupt_master_enabled
    /\ enabling_ime' = n.enabling_ime
    /\ int_flags' = n.int_flags
    /\ ie_register' = n.ie_register
    /\ opcode' = n.opcode
    /\ fetched_data' = n.fetched_data
    /\ cartridge' = n.cartridge
    /\ wram' = n.wram
    /\ hram' = n.hram
    /\ timer' = n.timer
    /\ dma' = n.dma
    /\ lcd_dma' = n.lcd_dma
    /\ oam_ram' = n.oam_ram
    /\ ppu' = n.ppu
    /\ lcd' = n.lcd
    /\ exited' = n.exited
    /\ clock_obs' = n.clock
    /\ gamepad' = n.gamepad
    /\ serial_data' = n.serial_data
    /\ dbg_msg' = n.dbg_msg
    /\ serial_obs' = n.sent
    /\ ui' = n.ui

Exit(s) == [s EXCEPT !.exited = TRUE]

(***************************************************************************)
(* Address bus (address_bus.rs)                                            *)
(*                                                                         *)
(* A raw-pointer read outside the ROM image is undefined: inp.fault tells   *)
(* whether it faults, inp.wild is the byte it finds when it does not.      *)
(* inp.debug tells whether the build checks arithmetic overflow.           *)
(***************************************************************************)
\* AddressBus::read, the cartridge branch: r is what Cartridge::read
\* dereferences
cartridge_byte(r, inp) ==
    CASE r.kind = "panic" -> [val |-> 0, exit |-> TRUE]
      [] r.kind = "wild"  -> [val |-> inp.wild, exit |-> inp.fault]
      [] OTHER            -> [val |-> r.val, exit |-> FALSE]

\* AddressBus::read: [val |-> the byte returned, exit |-> the process ended]
AddressBus_read(s, address, inp) ==
    IF address <= 32768
    THEN cartridge_byte(Cartridge_read(s.cartridge, address), inp)
    ELSE IF address < 40960 THEN [val |-> 0, exit |-> FALSE]
    \* the cartridge-RAM branch drops the byte it read and runs into the
    \* process::exit(-5) at the end of the function
    ELSE IF address < 49152 THEN [val |-> 0, exit |-> TRUE]
    ELSE IF address < 57344
         THEN [val |-> wram_read(s.wram, address), exit |-> FALSE]
    ELSE IF address < 65184 THEN [val |-> 0, exit |-> FALSE]
    ELSE IF address < 65280 THEN [val |-> 0, exit |-> FALSE]
    ELSE IF address < 65408 THEN [val |-> 0, exit |-> FALSE]
    ELSE IF address < 65535
         THEN [val |-> hram_read(s.hram, address), exit |-> FALSE]
    ELSE [val |-> s.ie_register, exit |-> FALSE]

\* AddressBus::write, the cartridge branch: w is what Cartridge::write
\* returns
cartridge_written(s, w) ==
    IF w.panic THEN Exit(s) ELSE [s EXCEPT !.cartridge = w.c]

\* AddressBus::write: the context after the write
AddressBus_write(s, address, data) ==
    IF address <= 32768 \/ (40960 <= address /\ address < 49152)
    THEN cartridge_written(s, Cartridge_write(s.cartridge, address, data))
    ELSE IF address < 40960 THEN s
    ELSE IF address < 57344
         THEN [s EXCEPT !.wram = wram_write(s.wram, address, data)]
    ELSE IF address < 65184 THEN Exit(s)
    ELSE IF address < 65280 THEN s
    ELSE IF address < 65408 THEN s
    ELSE IF address < 65535
         THEN [s EXCEPT !.hram = hram_write(s.hram, address, data)]
    ELSE [s EXCEPT !.ie_register = data]

(***************************************************************************)
(* Instruction table (cpu/instruction.rs)                                  *)
(***************************************************************************)
\* The opcodes that have no entry in the map INSTRUCTIONS
NoDescriptor ==
    {7, 18, 23, 31, 39, 55} \cup (160..174) \cup (176..191) \cup
    {203, 211, 214, 219, 221, 222, 227, 228, 230, 235, 236, 237, 238,
     244, 246, 248, 249, 251, 252, 253}

\* Instruction::new and its short forms
Instruction(t, m, r1, r2) ==
    [instr_type |-> t, addr_mode |-> m, reg1 |-> r1, reg2 |-> r2,
     cond_type |-> "CT_NONE"]

\* Instruction::new with a condition
Instruction_new(t, m, r1, r2, cond) ==
    [instr_type |-> t, addr_mode |-> m, reg1 |-> r1, reg2 |-> r2,
     cond_type |-> cond]

\* The condition of the opcodes 0x20/0xC2/0xC4 (NZ), 0x28/0xCA/0xCC (Z),
\* 0x30/0xD2/0xD4 (NC), 0x38/0xDA/0xDC (C)
CondOf(op) ==
    CASE op \in {32, 194, 196} -> "CT_NZ"
      [] op \in {40, 202, 204} -> "CT_Z"
      [] op \in {48, 210, 212} -> "CT_NC"
      [] op \in {56, 218, 220} -> "CT_C"

JrOps == {32, 40, 48, 56}

JpOps == {194, 202, 210, 218}

CallOps == {196, 204, 212, 220}

\* The descriptors of the opcodes the model follows: NOP, LD rr,d16,
\* LD B,d8, LD A,d8, HALT, 0x80, 0x90, POP rr, PUSH rr, JP a16, RETI, DI,
\* JR r8, CALL a16 and the conditional JR, JP and CALL
INSTRUCTIONS(op) ==
    CASE op = 0   -> Instruction("IN_NOP", "AM_IMP", "RT_NONE", "RT_NONE")
      [] op = 1   -> Instruction("IN_LD", "AM_R_D16", "RT_BC", "RT_NONE")
      [] op = 17  -> Instruction("IN_LD", "AM_R_D16", "RT_DE", "RT_NONE")
      [] op = 33  -> Instruction("IN_LD", "AM_R_D16", "RT_HL", "RT_NONE")
      [] op = 49  -> Instruction("IN_LD", "AM_R_D16", "RT_SP", "RT_NONE")
      [] op = 24  -> Instruction("IN_JR", "AM_D8", "RT_NONE", "RT_NONE")
      [] op \in JrOps ->
             Instruction_new("IN_JR", "AM_D8", "RT_NONE", "RT_NONE", CondOf(op))
      [] op \in JpOps ->
             Instruction_new("IN_JP", "AM_D16", "RT_NONE", "RT_NONE", CondOf(op))
      [] op \in CallOps ->
             Instruction_new("IN_CALL", "AM_D16_R", "RT_NONE", "RT_NONE",
                             CondOf(op))
      [] op = 205 -> Instruction("IN_CALL", "AM_D16", "RT_NONE", "RT_NONE")
      [] op = 209 -> Instruction("IN_POP", "AM_R", "RT_DE", "RT_NONE")
      [] op = 213 -> Instruction("IN_PUSH", "AM_R", "RT_DE", "RT_NONE")
      [] op = 225 -> Instruction("IN_POP", "AM_R", "RT_HL", "RT_NONE")
      [] op = 229 -> Instruction("IN_PUSH", "AM_R", "RT_HL", "RT_NONE")
      [] op = 245 -> Instruction("IN_PUSH", "AM_R", "RT_AF", "RT_NONE")
      [] op = 6   -> Instruction("IN_LD", "AM_R_D8", "RT_B", "RT_NONE")
      [] op = 62  -> Instruction("IN_LD", "AM_R_D8", "RT_A", "RT_NONE")
      [] op = 118 -> Instruction("IN_HALT", "AM_IMP", "RT_NONE", "RT_NONE")
      [] op = 128 -> Instruction("IN_SUB", "AM_R_R", "RT_A", "RT_B")
      [] op = 144 -> Instruction("IN_ADD", "AM_R_R", "RT_A", "RT_B")
      [] op = 193 -> Instruction("IN_POP", "AM_R", "RT_BC", "RT_NONE")
      [] op = 195 -> Instruction("IN_JP", "AM_D16", "RT_NONE", "RT_NONE")
      [] op = 197 -> Instruction("IN_PUSH", "AM_R", "RT_BC", "RT_NONE")
      [] op = 217 -> Instruction("IN_RETI", "AM_IMP", "RT_NONE", "RT_NONE")
      [] op = 241 -> Instruction("IN_POP", "AM_R", "RT_AF", "RT_NONE")
      [] op = 243 -> Instruction("IN_DI", "AM_IMP", "RT_NONE", "RT_NONE")

\* The opcodes whose descriptor the model holds
TableOps ==
    {0, 1, 6, 17, 24, 33, 49, 62, 118, 128, 144, 193, 195, 197, 205, 209, 213,
     217, 225, 229, 241, 243, 245} \cup JrOps \cup JpOps \cup CallOps

\* Instruction::get_instruction: is there a descriptor for the opcode
contains_key(op) == op \notin NoDescriptor

\* The opcode bytes the model lets a ROM hold at PC: 0x00 NOP, 0x76 HALT,
\* 0xD9 RETI, 0xF3 DI and 0xFB, the opcode of EI
FetchOps == {0, 118, 217, 243, 251}

(***************************************************************************)
(* Interrupt controller (cpu/interrupts.rs) and stack (cpu.rs)             *)
(***************************************************************************)
IT_VBLANK == 1

IT_LCD_STAT == 2

IT_TIMER == 4

IT_SERIAL == 8

IT_JOYPAD == 16

VBLANK_ADDR == 64

LCD_STAT_ADDR == 72

TIMER_ADDR == 80

SERIAL_ADDR == 88

JOYPAD_ADDR == 96

\* request_interrupt
request_interrupt(s, interrupt_type) ==
    [s EXCEPT !.int_flags = BitOr(@, interrupt_type)]

\* CPU::stack_push
stack_push(s, data) ==
    IF s.exited THEN s
    ELSE AddressBus_write(
             [s EXCEPT !.registers.sp = U16(s.registers.sp + 65535)],
             U16(s.registers.sp + 65535), data)

\* stack_push16 pushing the low byte first
stack_push16_lo_first(s, data) == stack_push(stack_push(s, Lo(data)), Hi(data))

\* CPU::stack_push16
stack_push16(s, data) == stack_push(stack_push(s, Hi(data)), Lo(data))

\* CPU::stack_pop after its bus read r.  sp_val + 1 overflows at 0xFFFF: a
\* panic with overflow checks (inp.debug), a wrap to 0 without.
popped(s, r, inp) ==
    IF r.exit \/ (s.registers.sp = 65535 /\ inp.debug)
    THEN [s |-> Exit(s), data |-> r.val]
    ELSE [s |-> [s EXCEPT !.registers.sp = U16(@ + 1)], data |-> r.val]

\* CPU::stack_pop: [s |-> context, data |-> the byte popped]
stack_pop(s, inp) ==
    IF s.exited THEN [s |-> s, data |-> 0]
    ELSE popped(s, AddressBus_read(s, s.registers.sp, inp), inp)

\* set_interrupt_addr after its push: p is the context the push left
vectored(p, address) ==
    IF p.exited THEN p ELSE [p EXCEPT !.registers.pc = address]

\* set_interrupt_addr
set_interrupt_addr(s, address) ==
    vectored(stack_push16(s, s.registers.pc), address)

\* interrupt_check after set_interrupt_addr: p is the context it left
acknowledged(p, int_type) ==
    IF p.exited THEN [s |-> p, hit |-> FALSE]
    ELSE [s |-> [p EXCEPT !.int_flags = BitAnd(@, BitNot8(int_type)),
                          !.halted = FALSE,
                          !.interrupt_master_enabled = FALSE],
          hit |-> TRUE]

\* interrupt_check: [s |-> context, hit |-> the value returned]
interrupt_check(s, address, int_type) ==
    IF BitAnd(s.int_flags, int_type) # 0 /\ BitAnd(s.ie_register, int_type) # 0
    THEN acknowledged(set_interrupt_addr(s, address), int_type)
    ELSE [s |-> s, hit |-> FALSE]

\* The order in which handle_interrupts tries the sources
InterruptOrder ==
    << <<VBLANK_ADDR, IT_VBLANK>>, <<LCD_STAT_ADDR, IT_LCD_STAT>>,
       <<TIMER_ADDR, IT_TIMER>>, <<SERIAL_ADDR, IT_SERIAL>>,
       <<JOYPAD_ADDR, IT_JOYPAD>> >>

\* handle_interrupts: the if / else-if chain from its k-th test on.
\* [s |-> context, served |-> the source serviced, or 0]
RECURSIVE handle_from(_, _)
RECURSIVE handle_else(_, _)
handle_from(s, k) ==
    IF k > Len(InterruptOrder) \/ s.exited THEN [s |-> s, served |-> 0]
    ELSE handle_else(
             interrupt_check(s, InterruptOrder[k][1], InterruptOrder[k][2]), k)

\* handle_interrupts with independent ifs: the tests after a hit still run
handle_else_all(c, k) ==
    IF c.hit
    THEN [handle_from(c.s, k + 1) EXCEPT !.served = InterruptOrder[k][2]]
    ELSE handle_from(c.s, k + 1)

\* c is what the k-th interrupt_check returned
handle_else(c, k) ==
    IF c.hit THEN [s |-> c.s, served |-> InterruptOrder[k][2]]
    ELSE handle_from(c.s, k + 1)

handle_interrupts(s) == handle_from(s, 1)

(***************************************************************************)
(* CPU::step (cpu.rs)                                                      *)
(*                                                                         *)
(* The clock scheduler (Emulator::cycles as cpu.rs calls it) ticks the     *)
(* timer and the PPU, which act on the CPU only through                    *)
(* request_interrupt.  req is the set of sources they request during the   *)
(* cycles a step charges before its interrupt check: the PPU requests      *)
(* IT_VBLANK and IT_LCD_STAT, the timer IT_TIMER.                          *)
(***************************************************************************)
RECURSIVE cycles(_, _)
cycles(s, req) ==
    IF req = {} THEN s
    ELSE cycles(request_interrupt(s, CHOOSE x \in req : TRUE),
                req \ {CHOOSE x \in req : TRUE})

\* increment_pc leaving PC alone
increment_pc_stay(s, inp) == s

\* CPU::increment_pc (pc += 1 overflows at 0xFFFF)
increment_pc(s, inp) ==
    IF s.registers.pc = 65535 /\ inp.debug THEN Exit(s)
    ELSE [s EXCEPT !.registers.pc = U16(@ + 1)]

\* fetch_instruction looking the descriptor up after increment_pc
fetched_late(s, r, inp) ==
    IF r.exit THEN Exit([s EXCEPT !.opcode = r.val])
    ELSE IF ~contains_key(r.val)
    THEN Exit(increment_pc([s EXCEPT !.opcode = r.val], inp))
    ELSE increment_pc([s EXCEPT !.opcode = r.val], inp)

\* CPU::fetch_instruction after its bus read r; get_instruction ends the
\* process for an opcode without descriptor
fetched(s, r, inp) ==
    IF r.exit \/ ~contains_key(r.val) THEN Exit([s EXCEPT !.opcode = r.val])
    ELSE increment_pc([s EXCEPT !.opcode = r.val], inp)

\* CPU::fetch_instruction
fetch_instruction(s, inp) ==
    fetched(s, AddressBus_read(s, s.registers.pc, inp), inp)

\* CPU::exec_ret, the goto: hi is the second pop, lo the byte of the first
ret_goto(hi, lo) ==
    IF hi.s.exited THEN hi.s
    ELSE [hi.s EXCEPT !.registers.pc = hi.data * 256 + lo]

\* CPU::exec_ret after its first pop
ret_hi(lo, inp) == ret_goto(stack_pop(lo.s, inp), lo.data)

\* CPU::exec_ret for an instruction without condition
exec_ret(s, inp) == ret_hi(stack_pop(s, inp), inp)

\* CPU::exec_reti
exec_reti(s, inp) == exec_ret([s EXCEPT !.interrupt_master_enabled = TRUE], inp)

\* CPU::exec_di
exec_di(s) == [s EXCEPT !.interrupt_master_enabled = FALSE]

\* CPU::exec_halt
exec_halt(s) == [s EXCEPT !.halted = TRUE]

\* CPU::exec_ei
exec_ei(s) == [s EXCEPT !.enabling_ime = TRUE]

(***************************************************************************)
(* Registers and flags (cpu.rs)                                            *)
(***************************************************************************)
Z_FLAG == 128

N_FLAG == 64

H_FLAG == 32

C_FLAG == 16

\* RegType::is_16_bit
is_16_bit(reg) == reg \in {"RT_AF", "RT_BC", "RT_DE", "RT_HL", "RT_SP", "RT_PC"}

\* CPU::read_reg
read_reg(s, reg) ==
    CASE reg = "RT_A"  -> s.registers.a
      [] reg = "RT_B"  -> s.registers.b
      [] reg = "RT_C"  -> s.registers.c
      [] reg = "RT_D"  -> s.registers.d
      [] reg = "RT_E"  -> s.registers.e
      [] reg = "RT_H"  -> s.registers.h
      [] reg = "RT_L"  -> s.registers.l
      [] reg = "RT_SP" -> s.registers.sp
      [] reg = "RT_PC" -> s.registers.pc
      [] reg = "RT_AF" -> s.registers.a * 256 + s.registers.f
      [] reg = "RT_BC" -> s.registers.b * 256 + s.registers.c
      [] reg = "RT_DE" -> s.registers.d * 256 + s.registers.e
      [] reg = "RT_HL" -> s.registers.h * 256 + s.registers.l

\* CPU::set_register; value is a u16
set_register(s, reg, value) ==
    CASE reg = "RT_A"  -> [s EXCEPT !.registers.a = Lo(value)]
      [] reg = "RT_B"  -> [s EXCEPT !.registers.b = Lo(value)]
      [] reg = "RT_C"  -> [s EXCEPT !.registers.c = Lo(value)]
      [] reg = "RT_D"  -> [s EXCEPT !.registers.d = Lo(value)]
      [] reg = "RT_E"  -> [s EXCEPT !.registers.e = Lo(value)]
      [] reg = "RT_H"  -> [s EXCEPT !.registers.h = Lo(value)]
      [] reg = "RT_L"  -> [s EXCEPT !.registers.l = Lo(value)]
      [] reg = "RT_SP" -> [s EXCEPT !.registers.sp = value]
      [] reg = "RT_PC" -> [s EXCEPT !.registers.pc = value]
      [] reg = "RT_AF" -> [s EXCEPT !.registers.a = Hi(value),
                                    !.registers.f = Lo(value)]
      [] reg = "RT_BC" -> [s EXCEPT !.registers.b = Hi(value),
                                    !.registers.c = Lo(value)]
      [] reg = "RT_DE" -> [s EXCEPT !.registers.d = Hi(value),
                                    !.registers.e = Lo(value)]
      [] reg = "RT_HL" -> [s EXCEPT !.registers.h = Hi(value),
                                    !.registers.l = Lo(value)]

\* CPU::get_flag
get_flag(s, flag) == (s.registers.f \div flag) % 2 = 1

\* CPU::set_flag: `f |= flag` or `f &= !flag` for a flag of one bit
set_flag(s, flag, value) ==
    IF value = get_flag(s, flag) THEN s
    ELSE IF value THEN [s EXCEPT !.registers.f = @ + flag]
    ELSE [s EXCEPT !.registers.f = @ - flag]

\* CPU::set_flags, one of its four lines: v < 0 leaves the flag alone
flag_line(s, flag, v) == IF v >= 0 THEN set_flag(s, flag, v > 0) ELSE s

\* CPU::set_flags
set_flags(s, z, n, h, c) ==
    flag_line(flag_line(flag_line(flag_line(s, Z_FLAG, z), N_FLAG, n),
                        H_FLAG, h), C_FLAG, c)

\* `(b) as i8` of a comparison
AsI8(b) == IF b THEN 1 ELSE 0

\* CPU::check_cond
check_cond(s, cond) ==
    CASE cond = "CT_NONE" -> TRUE
      [] cond = "CT_NZ"   -> ~get_flag(s, Z_FLAG)
      [] cond = "CT_Z"    -> get_flag(s, Z_FLAG)
      [] cond = "CT_NC"   -> ~get_flag(s, C_FLAG)
      [] cond = "CT_C"    -> get_flag(s, C_FLAG)

(***************************************************************************)
(* CPU::fetch_data and the instructions (cpu.rs)                           *)
(*                                                                         *)
(* mem_dest and dest_is_mem are not part of the state: no instruction the  *)
(* model follows reads them (exec_call takes its target from               *)
(* fetched_data).                                                          *)
(***************************************************************************)
\* fetch_data, an immediate byte after its bus read r: the low byte of the
\* operand
imm_lo(s, r, inp) ==
    IF r.exit THEN Exit(s)
    ELSE increment_pc([s EXCEPT !.fetched_data = r.val], inp)

\* fetch_data, the high byte of a 16-bit immediate after its bus read r
imm_hi(s, r, inp) ==
    IF r.exit THEN Exit(s)
    ELSE increment_pc([s EXCEPT !.fetched_data = r.val * 256 + @], inp)

\* fetch_data, AM_R_D8
fetch_d8(s, inp) == imm_lo(s, AddressBus_read(s, s.registers.pc, inp), inp)

\* fetch_data, AM_D16 and AM_R_D16, from the read of the high byte on
fetch_d16_hi(s, inp) ==
    IF s.exited THEN s
    ELSE imm_hi(s, AddressBus_read(s, s.registers.pc, inp), inp)

\* The registers read_reg knows; for any other RegType it ends the process
RegNames ==
    {"RT_A", "RT_B", "RT_C", "RT_D", "RT_E", "RT_H", "RT_L", "RT_SP", "RT_PC",
     "RT_AF", "RT_BC", "RT_DE", "RT_HL"}

\* fetch_data, AM_D16_R: an immediate byte that goes to mem_dest, after its
\* bus read r
imm_dest(s, r, inp) ==
    IF s.exited THEN s
    ELSE IF r.exit THEN Exit(s) ELSE increment_pc(s, inp)

\* fetch_data, AM_D16_R: the two immediate bytes
fetch_dest16(s, inp) ==
    imm_dest(imm_dest(s, AddressBus_read(s, s.registers.pc, inp), inp),
             AddressBus_read(s, U16(s.registers.pc + 1), inp), inp)

\* fetch_data, `self.fetched_data = self.read_reg(reg)`
fetch_reg(s, reg) ==
    IF s.exited THEN s
    ELSE IF reg \notin RegNames THEN Exit(s)
    ELSE [s EXCEPT !.fetched_data = read_reg(s, reg)]

\* CPU::fetch_data: the match on the addressing mode of the descriptor i
fetch_mode(s, i, inp) ==
    CASE i.addr_mode = "AM_IMP" -> s
      [] i.addr_mode = "AM_R" -> fetch_reg(s, i.reg1)
      [] i.addr_mode = "AM_R_R" -> fetch_reg(s, i.reg2)
      [] i.addr_mode \in {"AM_R_D8", "AM_D8"} -> fetch_d8(s, inp)
      [] i.addr_mode = "AM_D16_R" -> fetch_reg(fetch_dest16(s, inp), i.reg2)
      [] i.addr_mode \in {"AM_D16", "AM_R_D16"} ->
             fetch_d16_hi(fetch_d8(s, inp), inp)

\* CPU::fetch_data
fetch_data(s, inp) == fetch_mode(s, INSTRUCTIONS(s.opcode), inp)

\* CPU::exec_ld for a register destination (dest_is_mem is false and the
\* mode is not AM_HL_SPR)
exec_ld(s) == set_register(s, INSTRUCTIONS(s.opcode).reg1, s.fetched_data)

\* CPU::exec_add for an 8-bit reg1 holding op1
add8(s, reg, op1, data) ==
    set_flags(set_register(s, reg, U16(op1 + data)),
              AsI8(U16(op1 + data) % 256 = 0), 0,
              AsI8((op1 % 16) + (data % 16) >= 16),
              AsI8((op1 % 256) + (data % 256) >= 256))

\* CPU::exec_add; every ADD the model follows has an 8-bit reg1
exec_add(s) ==
    add8(s, INSTRUCTIONS(s.opcode).reg1,
         read_reg(s, INSTRUCTIONS(s.opcode).reg1), s.fetched_data)

\* CPU::exec_sub for reg1 holding op1
sub16(s, reg, op1, data) ==
    set_flags(set_register(s, reg, U16(op1 + 65536 - data)),
              AsI8(U16(op1 + 65536 - data) = 0), 1,
              AsI8((op1 % 16) - (data % 16) < 0),
              AsI8(op1 - data < 0))

\* CPU::exec_sub
exec_sub(s) ==
    sub16(s, INSTRUCTIONS(s.opcode).reg1,
          read_reg(s, INSTRUCTIONS(s.opcode).reg1), s.fetched_data)

\* CPU::goto_addr
goto_addr(s, address, push_pc) ==
    IF check_cond(s, INSTRUCTIONS(s.opcode).cond_type)
    THEN vectored(IF push_pc THEN stack_push16(s, s.registers.pc) ELSE s,
                  address)
    ELSE s

\* CPU::exec_jp
exec_jp(s) == goto_addr(s, s.fetched_data, FALSE)

\* `(self.fetched_data & 0xFF) as i8`
AsSigned8(b) == IF b >= 128 THEN b - 256 ELSE b

\* CPU::exec_jr: checked_add_signed(..).unwrap() panics when PC + rel leaves
\* the range of u16, before the condition is looked at
exec_jr(s) ==
    IF s.registers.pc + AsSigned8(s.fetched_data % 256) \notin 0..65535
    THEN Exit(s)
    ELSE goto_addr(s, s.registers.pc + AsSigned8(s.fetched_data % 256), FALSE)

\* CPU::exec_call
exec_call(s) == goto_addr(s, s.fetched_data, TRUE)

\* exec_push pushing the low byte first
exec_push_lo_first(s) ==
    stack_push(stack_push(s, Lo(s.fetched_data)), Hi(s.fetched_data))

\* CPU::exec_push
exec_push(s) == stack_push(stack_push(s, Hi(s.fetched_data)), Lo(s.fetched_data))

\* exec_pop storing what it popped in AF as it stores it in BC
pop_set_raw(hi, lo, reg) ==
    IF hi.s.exited THEN hi.s
    ELSE IF ~is_16_bit(reg) THEN Exit(hi.s)
    ELSE set_register(hi.s, reg, hi.data * 256 + lo)

\* CPU::exec_pop after its two pops: the assert and the store; `& 0xFFF0`
\* clears the low four bits
pop_set(hi, lo, reg) ==
    IF hi.s.exited THEN hi.s
    ELSE IF ~is_16_bit(reg) THEN Exit(hi.s)
    ELSE IF reg = "RT_AF"
    THEN set_register(hi.s, "RT_AF",
                      (hi.data * 256 + lo) - ((hi.data * 256 + lo) % 16))
    ELSE set_register(hi.s, reg, hi.data * 256 + lo)

\* CPU::exec_pop after its first pop
pop_hi(lo, reg, inp) == pop_set(stack_pop(lo.s, inp), lo.data, reg)

\* CPU::exec_pop
exec_pop(s, inp) ==
    pop_hi(stack_pop(s, inp), INSTRUCTIONS(s.opcode).reg1, inp)

\* CPU::execute: the match on the instruction type t
exec_type(s, t, inp) ==
    CASE t = "IN_NOP"  -> s
      [] t = "IN_LD"   -> exec_ld(s)
      [] t = "IN_ADD"  -> exec_add(s)
      [] t = "IN_SUB"  -> exec_sub(s)
      [] t = "IN_JP"   -> exec_jp(s)
      [] t = "IN_JR"   -> exec_jr(s)
      [] t = "IN_CALL" -> exec_call(s)
      [] t = "IN_PUSH" -> exec_push(s)
      [] t = "IN_POP"  -> exec_pop(s, inp)
      [] t = "IN_HALT" -> exec_halt(s)
      [] t = "IN_RETI" -> exec_reti(s, inp)
      [] t = "IN_DI"   -> exec_di(s)
      [] t = "IN_EI"   -> exec_ei(s)

\* CPU::execute
execute(s, inp) == exec_type(s, INSTRUCTIONS(s.opcode).instr_type, inp)

\* the length of the array dbg_msg
DbgLen == 1024

\* dbg_update, the body of its if: c is what bus.read(0xFF01) returned; an
\* index past the end of dbg_msg panics
dbg_append(s, c) ==
    IF c.exit \/ Len(s.dbg_msg) >= DbgLen THEN Exit(s)
    ELSE AddressBus_write([s EXCEPT !.dbg_msg = Append(@, c.val)], 65282, 0)

\* dbg_update seeing the serial registers themselves
dbg_update_direct(s, inp) ==
    IF s.serial_data[2] = 129
    THEN IF Len(s.dbg_msg) >= DbgLen THEN Exit(s)
         ELSE [s EXCEPT !.dbg_msg = Append(@, s.serial_data[1]),
                        !.serial_data[2] = 0]
    ELSE s

\* dbg_update: the registers are read and written through the bus
dbg_update(s, inp) ==
    IF AddressBus_read(s, 65282, inp).exit THEN Exit(s)
    ELSE IF AddressBus_read(s, 65282, inp).val = 129
    THEN dbg_append(s, AddressBus_read(s, 65281, inp))
    ELSE s

\* CPU::step, the branch of a running CPU after fetch_data and dbg_update
\* left d
step_decoded(d, inp) == IF d.exited THEN d ELSE execute(d, inp)

\* CPU::step, the branch of a running CPU after the fetch left f
step_run(f, req, inp) ==
    IF f.exited THEN f
    ELSE step_decoded(dbg_update(fetch_data(cycles(f, req), inp), inp), inp)

\* CPU::step, the branch of a halted CPU after its cycle left c
step_halted(c) ==
    IF c.int_flags # 0 THEN [c EXCEPT !.halted = FALSE] ELSE c

\* CPU::step up to its interrupt check: fetch, decode, execute, or the
\* halted branch
step_execute(s, req, inp) ==
    IF ~s.halted
    THEN step_run(fetch_instruction(s, inp), req, inp)
    ELSE step_halted(cycles(s, req))

\* CPU::step, `if self.enabling_ime { IME = true }`
step_deferred(h) ==
    IF ~h.s.exited /\ h.s.enabling_ime
    THEN [h EXCEPT !.s.interrupt_master_enabled = TRUE]
    ELSE h

\* CPU::step, the body of `if self.interrupt_master_enabled` after
\* handle_interrupts returned g
step_serviced(g) ==
    IF g.s.exited THEN g ELSE [g EXCEPT !.s.enabling_ime = FALSE]

\* The end of CPU::step: the interrupt check and the deferred EI.
\* [s |-> context, served |-> the source serviced, or 0]
step_interrupts(s) ==
    step_deferred(IF s.interrupt_master_enabled
                  THEN step_serviced(handle_interrupts(s))
                  ELSE [s |-> s, served |-> 0])

(***************************************************************************)
(* Timer (timer.rs)                                                        *)
(***************************************************************************)
DIV_ADDR == 65284

TIMA_ADDR == 65285

TMA_ADDR == 65286

TAC_ADDR == 65287

\* bit n of x
Bit(x, n) == (x \div (2 ^ n)) % 2

\* The selector with bit 8 in the place of bit 9
SelectedBit_8(tac) ==
    CASE tac % 4 = 0 -> 8
      [] tac % 4 = 1 -> 3
      [] tac % 4 = 2 -> 5
      [] tac % 4 = 3 -> 7

\* The bit of DIV the selector tac & 0b11 watches
SelectedBit(tac) ==
    CASE tac % 4 = 0 -> 9
      [] tac % 4 = 1 -> 3
      [] tac % 4 = 2 -> 5
      [] tac % 4 = 3 -> 7

\* Timer::tick, the match: the selected bit of DIV fell
timer_update(prev_div, div, tac) ==
    Bit(prev_div, SelectedBit(tac)) # 0 /\ Bit(div, SelectedBit(tac)) = 0

\* Timer::is_enabled
is_enabled(t) == Bit(t.tac, 2) # 0

\* Timer::tick, `if timer_update && self.is_enabled()`: t has TIMA
\* incremented already.  [t |-> timer, ret |-> the value returned]
tick_reload(t) ==
    IF t.tima = 255 THEN [t |-> [t EXCEPT !.tima = t.tma], ret |-> TRUE]
    ELSE [t |-> t, ret |-> FALSE]

\* Timer::tick after the increment of DIV; upd is timer_update
tick_tima(t, upd) ==
    IF upd /\ is_enabled(t) THEN tick_reload([t EXCEPT !.tima = U8(@ + 1)])
    ELSE [t |-> t, ret |-> FALSE]

\* Timer::tick: [t |-> timer, ret |-> the value returned]
Timer_tick(t) ==
    tick_tima([t EXCEPT !.div = U16(@ + 1)],
              timer_update(t.div, U16(t.div + 1), t.tac))

\* Timer::read
Timer_read(t, address) ==
    CASE address = DIV_ADDR  -> [val |-> t.div \div 256, exit |-> FALSE]
      [] address = TIMA_ADDR -> [val |-> t.tima, exit |-> FALSE]
      [] address = TMA_ADDR  -> [val |-> t.tma, exit |-> FALSE]
      [] address = TAC_ADDR  -> [val |-> t.tac, exit |-> FALSE]
      [] OTHER               -> [val |-> 0, exit |-> TRUE]

\* Timer::write: [t |-> timer, exit |-> the process ended]
Timer_write(t, address, data) ==
    CASE address = DIV_ADDR  -> [t |-> [t EXCEPT !.div = 0], exit |-> FALSE]
      [] address = TIMA_ADDR -> [t |-> [t EXCEPT !.tima = data], exit |-> FALSE]
      [] address = TMA_ADDR  -> [t |-> [t EXCEPT !.tma = data], exit |-> FALSE]
      [] address = TAC_ADDR  -> [t |-> [t EXCEPT !.tac = data], exit |-> FALSE]
      [] OTHER               -> [t |-> t, exit |-> TRUE]

\* The scheduler's timer tick: the timer is ticked and IT_TIMER requested
\* when the tick returns true.  r is what Timer::tick returned.
timer_cycle(s, r) ==
    IF r.ret THEN request_interrupt([s EXCEPT !.timer = r.t], IT_TIMER)
    ELSE [s EXCEPT !.timer = r.t]

(***************************************************************************)
(* OAM DMA (dma.rs), the OAM of the PPU (ppu.rs), LCD register 0xFF46      *)
(* (lcd.rs)                                                                *)
(***************************************************************************)
DMA_ADDR == 65350

OamLen == 160

\* DMA::start
DMA_start(d, start) ==
    [active |-> TRUE, byte |-> 0, value |-> start, start_delay |-> 2]

\* DMA::is_transferring
is_transferring(d) == d.active

\* PPU::oam_write after the address is reduced to an index
oam_store(s, index, value) ==
    IF index < OamLen THEN [s EXCEPT !.oam_ram = Poke(@, index, value)]
    ELSE Exit(s)

\* PPU::oam_write
oam_write(s, address, value) ==
    oam_store(s, IF address >= 65024 THEN address - 65024 ELSE address, value)

\* DMA::tick, `self.byte += 1; self.active = self.byte < 0xA0`
dma_next(s) ==
    IF s.exited THEN s
    ELSE [s EXCEPT !.dma.byte = @ + 1, !.dma.active = (s.dma.byte + 1 < 160)]

\* DMA::tick, the copy of one byte: r is what the bus read returned
dma_copy(s, r) ==
    IF r.exit THEN Exit(s) ELSE dma_next(oam_write(s, s.dma.byte, r.val))

\* DMA::tick
DMA_tick(s, inp) ==
    IF ~s.dma.active THEN s
    ELSE IF s.dma.start_delay > 0 THEN [s EXCEPT !.dma.start_delay = @ - 1]
    ELSE dma_copy(s, AddressBus_read(s, s.dma.value * 256 + s.dma.byte, inp))

\* LCD::write.  A write to a palette register 0xFF47-0xFF49 calls
\* update_palette, which fills a colour table (not part of the state
\* modelled here) and leaves bg_palette and obj_palette as they are; an
\* address outside 0xFF40-0xFF4B panics.
LCD_write(s, addr, value) ==
    CASE addr = 65344 -> [s EXCEPT !.lcd.lcdc = value]
      [] addr = 65345 -> [s EXCEPT !.lcd.lcds = value]
      [] addr = 65346 -> [s EXCEPT !.lcd.scroll_y = value]
      [] addr = 65347 -> [s EXCEPT !.lcd.scroll_x = value]
      [] addr = 65348 -> [s EXCEPT !.lcd.ly = value]
      [] addr = 65349 -> [s EXCEPT !.lcd.lyc = value]
      [] addr = DMA_ADDR ->
             [s EXCEPT !.lcd_dma = value, !.dma = DMA_start(s.dma, value)]
      [] addr \in {65351, 65352, 65353} -> s
      [] addr = 65354 -> [s EXCEPT !.lcd.win_y = value]
      [] addr = 65355 -> [s EXCEPT !.lcd.win_x = value]
      [] OTHER -> Exit(s)

(***************************************************************************)
(* LCD registers (lcd.rs)                                                  *)
(***************************************************************************)
MODE_HBLANK == 0

MODE_VBLANK == 1

MODE_OAM == 2

MODE_XFER == 3

WIN_ENABLE_MASK == 32

OBJ_SIZE_MASK == 4

OBJ_ENABLE_MASK == 2

BGW_ENABLE_MASK == 1

LYC_INT_MASK == 64

VBLANK_INT_MASK == 16

HBLANK_INT_MASK == 8

\* `(x & mask) != 0` for a mask of one bit
Flag(x, mask) == (x \div mask) % 2 = 1

\* LCD::get_lcdc_flag
get_lcdc_flag(l, mask) == Flag(l.lcdc, mask)

\* LCD::get_lcdc_obj_size
get_lcdc_obj_size(l) == IF get_lcdc_flag(l, OBJ_SIZE_MASK) THEN 16 ELSE 8

\* LCD::get_lcds_mode
get_lcds_mode(l) == l.lcds % 4

\* LCD::set_lcds_mode
set_lcds_mode(l, mode) == [l EXCEPT !.lcds = (@ - (@ % 4)) + mode]

\* LCD::set_lcds_lyc
set_lcds_lyc(l, value) ==
    [l EXCEPT !.lcds = (@ - 4 * ((@ \div 4) % 2)) + (IF value THEN 4 ELSE 0)]

\* LCD::get_lcds_flag
get_lcds_flag(l, mask) == Flag(l.lcds, mask)

(***************************************************************************)
(* PPU (ppu.rs, ppu/fifo.rs)                                               *)
(*                                                                         *)
(* The pixel FIFO is modelled by its length and the video buffer by the    *)
(* index of the last pixel written (vb_index, -1 before the first): the    *)
(* colours of the pixels, and the tile bytes the fetcher reads from video  *)
(* RAM to compute them, are not part of the state.  Every address the      *)
(* fetcher reads lies in 0x8000-0x9FFF, where the bus read returns.        *)
(* line_sprites holds the indices of the OAM entries the source holds      *)
(* pointers to.                                                            *)
(***************************************************************************)
LINES_PER_FRAME == 154

TICKS_PER_LINE == 456

Y_RES == 144

X_RES == 160

\* the fields y and x of OAM entry i
OamY(s, i) == Peek(s.oam_ram, 4 * i)

OamX(s, i) == Peek(s.oam_ram, 4 * i + 1)

\* PPU::window_visible
window_visible(l) ==
    get_lcdc_flag(l, WIN_ENABLE_MASK) /\ l.win_x <= 166 /\ l.win_y < Y_RES

\* PixelFifo::reset
fifo_reset(f) ==
    [f EXCEPT !.curr_state = "FS_TILE", !.line_x = 0, !.pushed_x = 0,
              !.fetch_x = 0, !.fifo_x = 0]

\* PPU::load_line_sprites, the test of one entry against the current line
on_line(s, i) ==
    /\ OamY(s, i) <= s.lcd.ly + 16
    /\ OamY(s, i) + get_lcdc_obj_size(s.lcd) > s.lcd.ly + 16

\* PPU::load_line_sprites, the loop over the OAM entries from entry i on
RECURSIVE scan_oam(_, _, _)
scan_oam(s, i, acc) ==
    IF i >= 40 THEN acc
    ELSE IF OamX(s, i) = 0 THEN scan_oam(s, i + 1, acc)
    ELSE IF Len(acc) >= 10 THEN acc
    ELSE IF on_line(s, i) THEN scan_oam(s, i + 1, Append(acc, i))
    ELSE scan_oam(s, i + 1, acc)

\* sort_insert putting e in front of the entries with the same x
RECURSIVE sort_insert_front(_, _, _)
sort_insert_front(s, sorted, e) ==
    IF sorted = <<>> THEN <<e>>
    ELSE IF OamX(s, Head(sorted)) >= OamX(s, e) THEN <<e>> \o sorted
    ELSE <<Head(sorted)>> \o sort_insert_front(s, Tail(sorted), e)

\* sort_by (a stable sort), one insertion: e goes behind the entries whose x
\* is not greater
RECURSIVE sort_insert(_, _, _)
sort_insert(s, sorted, e) ==
    IF sorted = <<>> THEN <<e>>
    ELSE IF OamX(s, Head(sorted)) > OamX(s, e) THEN <<e>> \o sorted
    ELSE <<Head(sorted)>> \o sort_insert(s, Tail(sorted), e)

RECURSIVE sort_by_x(_, _, _)
sort_by_x(s, seq, sorted) ==
    IF seq = <<>> THEN sorted
    ELSE sort_by_x(s, Tail(seq), sort_insert(s, sorted, Head(seq)))

\* PPU::load_line_sprites after line_sprites.clear()
load_line_sprites(s) == sort_by_x(s, scan_oam(s, 0, <<>>), <<>>)

\* PPU::pipeline_load_sprite_tile, the test of one sprite against the
\* fetch range: spx is its x - 8 + SCX % 8, fx is fetch_x
in_fetch_range(spx, fx) ==
    \/ (spx >= fx /\ spx < fx + 8)
    \/ (spx + 8 >= fx /\ spx + 8 < fx + 8)

\* PPU::pipeline_load_sprite_tile, the loop from sprite k of the line on:
\* the number of entries fetched
RECURSIVE load_sprite_tile(_, _, _)
load_sprite_tile(s, k, count) ==
    IF k > Len(s.ppu.line_sprites) THEN count
    ELSE IF in_fetch_range(OamX(s, s.ppu.line_sprites[k]) - 8
                               + (s.lcd.scroll_x % 8),
                           s.ppu.fifo.fetch_x)
    THEN IF count + 1 >= 3 THEN count + 1
         ELSE load_sprite_tile(s, k + 1, count + 1)
    ELSE IF count >= 3 THEN count
    ELSE load_sprite_tile(s, k + 1, count)

\* PPU::pipeline_fetch, state FS_TILE
fetch_tile(s) ==
    [s EXCEPT !.ppu.fetched_entry_count =
                  IF get_lcdc_flag(s.lcd, OBJ_ENABLE_MASK)
                     /\ Len(s.ppu.line_sprites) > 0
                  THEN load_sprite_tile(s, 1, 0) ELSE 0,
              !.ppu.fifo.curr_state = "FS_TILE_DATA_LOW",
              !.ppu.fifo.fetch_x = U8(@ + 8)]

\* PPU::pipeline_fifo_add: eight pixels enter the FIFO unless it holds more
\* than 8 or `fetch_x - (8 - SCX % 8)` is negative
pipeline_fifo_add(s) ==
    IF s.ppu.fifo.size > 8 THEN s
    ELSE IF s.ppu.fifo.fetch_x - (8 - (s.lcd.scroll_x % 8)) >= 0
    THEN [s EXCEPT !.ppu.fifo.size = @ + 8,
                   !.ppu.fifo.fifo_x = U8(@ + 8),
                   !.ppu.fifo.curr_state = "FS_TILE"]
    ELSE [s EXCEPT !.ppu.fifo.curr_state = "FS_TILE"]

\* PPU::pipeline_fetch
pipeline_fetch(s) ==
    CASE s.ppu.fifo.curr_state = "FS_TILE" -> fetch_tile(s)
      [] s.ppu.fifo.curr_state = "FS_TILE_DATA_LOW" ->
             [s EXCEPT !.ppu.fifo.curr_state = "FS_TILE_DATA_HIGH"]
      [] s.ppu.fifo.curr_state = "FS_TILE_DATA_HIGH" ->
             [s EXCEPT !.ppu.fifo.curr_state = "FS_IDLE"]
      [] s.ppu.fifo.curr_state = "FS_IDLE" ->
             [s EXCEPT !.ppu.fifo.curr_state = "FS_PUSH"]
      [] s.ppu.fifo.curr_state = "FS_PUSH" -> pipeline_fifo_add(s)

\* PPU::pipeline_push_pixel, the write of the popped pixel to the video
\* buffer: an index outside the buffer panics
push_to_buffer(s) ==
    IF s.ppu.fifo.pushed_x + s.lcd.ly * X_RES >= X_RES * Y_RES THEN Exit(s)
    ELSE [s EXCEPT !.ppu.vb_index = s.ppu.fifo.pushed_x + s.lcd.ly * X_RES,
                   !.ppu.fifo.pushed_x = U8(@ + 1),
                   !.ppu.fifo.line_x = U8(@ + 1)]

\* pipeline_push_pixel popping whenever the FIFO holds a pixel
pipeline_push_pixel_eager(s) ==
    IF s.ppu.fifo.size > 0
    THEN IF s.ppu.fifo.line_x >= s.lcd.scroll_x % 8
         THEN push_to_buffer([s EXCEPT !.ppu.fifo.size = @ - 1])
         ELSE [s EXCEPT !.ppu.fifo.size = @ - 1,
                        !.ppu.fifo.line_x = U8(@ + 1)]
    ELSE s

\* PPU::pipeline_push_pixel
pipeline_push_pixel(s) ==
    IF s.ppu.fifo.size > 8
    THEN IF s.ppu.fifo.line_x >= s.lcd.scroll_x % 8
         THEN push_to_buffer([s EXCEPT !.ppu.fifo.size = @ - 1])
         ELSE [s EXCEPT !.ppu.fifo.size = @ - 1,
                        !.ppu.fifo.line_x = U8(@ + 1)]
    ELSE s

\* PPU::pipeline_process; map_x, map_y and tile_y only address video RAM
pipeline_process(s) ==
    pipeline_push_pixel(IF s.ppu.line_ticks % 2 = 0 THEN pipeline_fetch(s)
                        ELSE s)

\* PPU::increment_ly, the window line counter
ly_window(s) ==
    IF /\ window_visible(s.lcd)
       /\ s.lcd.ly >= s.lcd.win_y
       /\ s.lcd.ly < s.lcd.win_y + Y_RES
    THEN [s EXCEPT !.ppu.window_line = U8(@ + 1)]
    ELSE s

\* PPU::increment_ly, the LY == LYC compare after the increment
ly_compare(s) ==
    IF s.lcd.ly = s.lcd.lyc
    THEN IF get_lcds_flag(s.lcd, LYC_INT_MASK)
         THEN request_interrupt([s EXCEPT !.lcd = set_lcds_lyc(@, TRUE)],
                                IT_LCD_STAT)
         ELSE [s EXCEPT !.lcd = set_lcds_lyc(@, TRUE)]
    ELSE [s EXCEPT !.lcd = set_lcds_lyc(@, FALSE)]

\* PPU::increment_ly
increment_ly(s) == ly_compare([ly_window(s) EXCEPT !.lcd.ly = U8(@ + 1)])

\* PPU::mode_hblank, the entry to VBLANK: interrupts and the frame counter
\* (the pacing sleeps, and the battery file is written once a second)
enter_vblank(s) ==
    IF get_lcds_flag(s.lcd, VBLANK_INT_MASK)
    THEN request_interrupt(request_interrupt(s, IT_VBLANK), IT_LCD_STAT)
    ELSE request_interrupt(s, IT_VBLANK)

\* PPU::mode_hblank after increment_ly
hblank_next(s) ==
    IF s.lcd.ly >= Y_RES
    THEN [enter_vblank([s EXCEPT !.lcd = set_lcds_mode(@, MODE_VBLANK)])
             EXCEPT !.ppu.curr_frame = @ + 1, !.ppu.line_ticks = 0]
    ELSE [s EXCEPT !.lcd = set_lcds_mode(@, MODE_OAM), !.ppu.line_ticks = 0]

\* PPU::mode_hblank
mode_hblank(s) ==
    IF s.ppu.line_ticks >= TICKS_PER_LINE THEN hblank_next(increment_ly(s))
    ELSE s

\* PPU::mode_vblank after increment_ly
vblank_next(s) ==
    IF s.lcd.ly >= LINES_PER_FRAME
    THEN [s EXCEPT !.lcd = [set_lcds_mode(@, MODE_OAM) EXCEPT !.ly = 0],
                   !.ppu.window_line = 0, !.ppu.line_ticks = 0]
    ELSE [s EXCEPT !.ppu.line_ticks = 0]

\* PPU::mode_vblank
mode_vblank(s) ==
    IF s.ppu.line_ticks >= TICKS_PER_LINE THEN vblank_next(increment_ly(s))
    ELSE s

\* PPU::mode_oam, the scan of OAM on tick 1
oam_scan(s) ==
    IF s.ppu.line_ticks = 1
    THEN [s EXCEPT !.ppu.line_sprites = load_line_sprites(s)]
    ELSE s

\* PPU::mode_oam
mode_oam(s) ==
    oam_scan(IF s.ppu.line_ticks >= 80
             THEN [s EXCEPT !.lcd = set_lcds_mode(@, MODE_XFER),
                            !.ppu.fifo = fifo_reset(@)]
             ELSE s)

\* PPU::mode_xfer after pipeline_process
xfer_end(s) ==
    IF s.exited \/ s.ppu.fifo.pushed_x < X_RES THEN s
    ELSE IF get_lcds_flag(s.lcd, HBLANK_INT_MASK)
    THEN request_interrupt([s EXCEPT !.ppu.fifo.size = 0,
                                     !.lcd = set_lcds_mode(@, MODE_HBLANK)],
                           IT_LCD_STAT)
    ELSE [s EXCEPT !.ppu.fifo.size = 0,
                   !.lcd = set_lcds_mode(@, MODE_HBLANK)]

\* PPU::mode_xfer
mode_xfer(s) == xfer_end(pipeline_process(s))

\* PPU::tick, the dispatch on the mode
tick_mode(s) ==
    CASE get_lcds_mode(s.lcd) = MODE_HBLANK -> mode_hblank(s)
      [] get_lcds_mode(s.lcd) = MODE_VBLANK -> mode_vblank(s)
      [] get_lcds_mode(s.lcd) = MODE_OAM    -> mode_oam(s)
      [] get_lcds_mode(s.lcd) = MODE_XFER   -> mode_xfer(s)

\* PPU::tick without the increment of line_ticks
PPU_tick_still(s) == tick_mode(s)

\* PPU::tick; line_ticks is a u32 and no run of the model is long enough for
\* its wrapping_add to wrap
PPU_tick(s) == tick_mode([s EXCEPT !.ppu.line_ticks = @ + 1])

(***************************************************************************)
(* Initial values shared by the specifications                             *)
(***************************************************************************)
\* CPU_CTX.registers, the post-boot register state
PostBoot ==
    [a |-> 1, f |-> 176, b |-> 0, c |-> 19, d |-> 0, e |-> 216, h |-> 1,
     l |-> 77, pc |-> 256, sp |-> 65534]

CpuDefault ==
    /\ registers = PostBoot
    /\ halted = FALSE
    /\ interrupt_master_enabled = FALSE
    /\ enabling_ime = FALSE
    /\ int_flags = 0
    /\ ie_register = 0
    /\ opcode = 0
    /\ fetched_data = 0

RamDefault == wram = EmptyMem /\ hram = EmptyMem

TimerDefault == timer = [div |-> 43980, tima |-> 0, tma |-> 0, tac |-> 0]

DmaDefault ==
    /\ dma = [active |-> FALSE, byte |-> 0, value |-> 0, start_delay |-> 0]
    /\ lcd_dma = 0
    /\ oam_ram = EmptyMem

\* PPU_CTX, and LCD_CTX after LCD::init
PpuDefault ==
    /\ ppu = [curr_frame |-> 0, line_ticks |-> 0, window_line |-> 0,
              line_sprites |-> <<>>, fetched_entry_count |-> 0,
              vb_index |-> 0 - 1,
              fifo |-> [curr_state |-> "FS_TILE", size |-> 0, line_x |-> 0,
                        pushed_x |-> 0, fetch_x |-> 0, fifo_x |-> 0]]
    /\ lcd = [lcdc |-> 145, lcds |-> MODE_OAM, scroll_y |-> 0, scroll_x |-> 0,
              ly |-> 0, lyc |-> 0, win_y |-> 0, win_x |-> 0,
              bg_palette |-> 252, obj_palette |-> <<255, 255>>]

\* clock_obs counts the calls of Timer::tick, PPU::tick and DMA::tick and
\* the M-cycles charged through Emulator::cycles.
\* frame_obs: since is the number of PPU ticks since the frame counter last
\* went up (-1 before it first does), gap the number of ticks between the
\* last two times it went up (0 before the second)
PpuObsDefault ==
    /\ frame_obs = [since |-> 0 - 1, gap |-> 0]
    /\ clock_obs = [timer |-> 0, ppu |-> 0, dma |-> 0, charged |-> 0]

\* GAMEPAD_CTX, serial_data and dbg_msg / msg_size as the statics of the
\* source start, and the UI thread at the top of its loop.
\* serial_obs is the sequence of the bytes held in 0xFF01 at the guest's
\* writes of 0x81 to 0xFF02.
NoKeys ==
    [start |-> FALSE, select |-> FALSE, a |-> FALSE, b |-> FALSE,
     up |-> FALSE, down |-> FALSE, left |-> FALSE, right |-> FALSE]

IoDefault ==
    /\ gamepad = [button_select |-> FALSE, dir_select |-> FALSE,
                  controller |-> NoKeys]
    /\ serial_data = <<0, 0>>
    /\ dbg_msg = <<>>
    /\ serial_obs = <<>>
    /\ ui = [pos |-> "poll", prev_frame |-> 0]

\* What a step finds: PC, SP, IME, IE, IF, halted and the opcode of the
\* step before
Entry(s) ==
    [pc |-> s.registers.pc, sp |-> s.registers.sp,
     ime |-> s.interrupt_master_enabled, ie |-> s.ie_register,
     iflags |-> s.int_flags, halted |-> s.halted, opcode |-> s.opcode]

EntryDefault ==
    [pc |-> 0, sp |-> 0, ime |-> FALSE, ie |-> 0, iflags |-> 0,
     halted |-> FALSE, opcode |-> 0]

CpuObsDefault ==
    cpu_pos = "fetch" /\ served = 0 /\ steps = 0 /\ entry = EntryDefault

\* bus_op: kind "none", "read" or "write", the address, and whether the DMA
\* engine was active at the access
NoBusOp == [kind |-> "none", address |-> 0, active |-> FALSE]

BusObsDefault == last_read = 0 /\ bus_op = NoBusOp

TimerObsDefault ==
    /\ tick_ret = FALSE
    /\ tick_inc = FALSE
    /\ anchor = "none"
    /\ since = 0
    /\ incs = 0

(***************************************************************************)
(* SpecCpu: the CPU running a program from ROM.  The registers a guest     *)
(* program sets up (SP, IE), the requests the devices have latched in IF   *)
(* and IME are drawn from sample sets.                                     *)
(***************************************************************************)
MaxSteps == 2

\* top of HRAM (the post-boot SP), WRAM, and 0x0001 whose two stack bytes
\* are ROM address 0x0000 and the IE register at 0xFFFF
SPSamples == {65534, 53248, 1}

IESamples == {0, 1, 4, 20, 31}

IFSamples == {0, 1, 4, 5, 6, 16, 24, 31}

DeviceRequests == {{}, {IT_VBLANK}, {IT_LCD_STAT}, {IT_TIMER}}

\* reads in bounds; the build checks arithmetic overflow or not
CpuInputs == [wild : {0}, fault : {FALSE}, debug : BOOLEAN]

\* the ROM images: two opcodes at 0x0150, NOP everywhere else
CpuImages == {Image(<<a, b>>, 336) : a \in FetchOps, b \in FetchOps}

InitCpu ==
    /\ registers \in {[PostBoot EXCEPT !.pc = 336, !.sp = sp] : sp \in SPSamples}
    /\ halted = FALSE
    /\ interrupt_master_enabled \in BOOLEAN
    /\ enabling_ime = FALSE
    /\ int_flags \in IFSamples
    /\ ie_register \in IESamples
    /\ opcode = 0
    /\ fetched_data = 0
    /\ cartridge \in {load_rom_file(CartridgeInit(0, 0, 32768), image) :
                          image \in CpuImages}
    /\ RamDefault /\ TimerDefault /\ DmaDefault /\ PpuDefault
    /\ exited = FALSE
    /\ CpuObsDefault /\ TimerObsDefault
    /\ nticks = 0
    /\ BusObsDefault /\ PpuObsDefault /\ IoDefault

\* The byte at PC is one whose execution the model follows, or one that
\* ends the run at the fetch
FollowedByte(r) == r.exit \/ r.val \in TableOps \/ ~contains_key(r.val)

Followed(s, inp) ==
    \/ s.halted
    \/ FollowedByte(AddressBus_read(s, s.registers.pc, inp))

\* CPU::step, first part, while fewer than max steps were made
StepExecuteWithin(max) ==
    /\ ~exited
    /\ cpu_pos = "fetch"
    /\ steps < max
    /\ \E req \in DeviceRequests, inp \in CpuInputs :
           /\ Followed(Ctx, inp)
           /\ Commit(step_execute(Ctx, req, inp))
    /\ cpu_pos' = "int"
    /\ entry' = Entry(Ctx)
    /\ UNCHANGED <<served, steps, timerObs, nticks, busObs,
                   frame_obs>>

StepExecute == StepExecuteWithin(MaxSteps)

\* CPU::step, second part
StepInterrupts ==
    /\ ~exited
    /\ cpu_pos = "int"
    /\ \E r \in {step_interrupts(Ctx)} :
           /\ Commit(r.s)
           /\ served' = r.served
    /\ cpu_pos' = "fetch"
    /\ steps' = steps + 1
    /\ UNCHANGED <<entry, timerObs, nticks, busObs,
                   frame_obs>>

NextCpu == StepExecute \/ StepInterrupts

SpecCpu == InitCpu /\ [][NextCpu]_vars

(***************************************************************************)
(* Properties of SpecCpu                                                   *)
(***************************************************************************)
\* The byte a bus read of a RAM or register address returns
BusByte(s, address) ==
    AddressBus_read(s, address,
                    [wild |-> 0, fault |-> FALSE, debug |-> FALSE]).val

\* An address of work RAM or high RAM
InRam(address) ==
    \/ (49152 <= address /\ address < 57344)
    \/ (65408 <= address /\ address < 65535)

\* The vector of an interrupt source
Vector(t) ==
    CASE t = IT_VBLANK   -> VBLANK_ADDR
      [] t = IT_LCD_STAT -> LCD_STAT_ADDR
      [] t = IT_TIMER    -> TIMER_ADDR
      [] t = IT_SERIAL   -> SERIAL_ADDR
      [] t = IT_JOYPAD   -> JOYPAD_ADDR
      [] OTHER           -> 0

Sources == {IT_VBLANK, IT_LCD_STAT, IT_TIMER, IT_SERIAL, IT_JOYPAD}

\* The sources both pending and enabled
Ready(ie, iflags) == {t \in Sources : BitAnd(BitAnd(ie, iflags), t) # 0}

\* The ready source with the lowest bit number
First(ie, iflags) ==
    CHOOSE t \in Ready(ie, iflags) : \A u \in Ready(ie, iflags) : t <= u

\* The interrupt check of a step is passed
CheckStep == cpu_pos = "int" /\ cpu_pos' = "fetch"

\* A step has ended and the CPU is about to start the next
StepDone == cpu_pos = "fetch" /\ steps >= 1 /\ ~exited

\* What a service does, in the terms of the state before it
ServiceEffects ==
    /\ registers'.sp = U16(registers.sp + 65534)
    /\ BusByte(Ctx', U16(registers.sp + 65535)) = Hi(registers.pc)
    /\ BusByte(Ctx', U16(registers.sp + 65534)) = Lo(registers.pc)
    /\ registers'.pc = Vector(served')
    /\ BitAnd(int_flags, served') = served'
    /\ int_flags' = int_flags - served'
    /\ ie_register' = ie_register
    /\ ~interrupt_master_enabled'
    /\ ~halted'

\* C1 (EI delay): a step that fetches the opcode of EI (0xFB) executes it:
\* the run goes on; with IME clear and an interrupt ready, nothing is
\* serviced in that step and IME is set at its end; the interrupt is
\* serviced at the end of the step after it.
C1_EIDelay ==
    [][/\ (cpu_pos = "fetch" /\ cpu_pos' = "int" /\ opcode' = 251)
             => ~exited'
       /\ (CheckStep /\ opcode = 251 /\ ~entry.ime
                     /\ Ready(ie_register, int_flags) # {})
             => (served' = 0 /\ interrupt_master_enabled')
       /\ (CheckStep /\ entry.opcode = 251 /\ interrupt_master_enabled
                     /\ Ready(ie_register, int_flags) # {})
             => served' # 0]_vars

\* C2 (interrupt service) as the claim states it: whenever an interrupt is
\* serviced, PC is pushed (high byte at SP-1, low byte at SP-2, SP down by
\* 2), PC is the vector of the source, exactly its bit is cleared in IF, IE
\* is unchanged, IME and halted are false.
C2_Service == [][(CheckStep /\ served' # 0) => ServiceEffects]_vars

\* C2 amended: the same, when the two stack bytes SP-1 and SP-2 lie in work
\* RAM or high RAM.
C2_ServiceInRam ==
    [][(/\ CheckStep
        /\ served' # 0
        /\ InRam(U16(registers.sp + 65535))
        /\ InRam(U16(registers.sp + 65534))) => ServiceEffects]_vars

C2_Witness ==
    /\ StepDone
    /\ served = IT_TIMER
    /\ registers.pc = TIMER_ADDR
    /\ registers.sp = 65532
    /\ BusByte(Ctx, 65533) = 1
    /\ BusByte(Ctx, 65532) = 81

\* The state scenario S3 starts from
S3Entry ==
    /\ entry.ie = 1 /\ entry.iflags = 1 /\ entry.ime
    /\ entry.pc = 336 /\ entry.sp = 65534 /\ ~entry.halted

\* C3 (scenario S3) as the claim states it: from IE=0x01, IF=0x01, IME=1,
\* PC=0x0150, SP=0xFFFE, not halted, one step leaves 0x50 at 0xFFFC and 0x01
\* at 0xFFFD, PC=0x0040, IF bit 0 clear and IME clear.
C3_S3 ==
    (StepDone /\ steps = 1 /\ S3Entry) =>
        /\ BusByte(Ctx, 65532) = 80
        /\ BusByte(Ctx, 65533) = 1
        /\ registers.pc = 64
        /\ BitAnd(int_flags, 1) = 0
        /\ ~interrupt_master_enabled

\* C3 amended: from the S3 state with a NOP at 0x0150, one step executes the
\* NOP and then services VBLANK: it leaves 0x51 at 0xFFFC and 0x01 at 0xFFFD
\* (the address after the NOP), SP=0xFFFC, PC=0x0040, IF bit 0 clear and IME
\* clear.
C3_S3AfterNop ==
    (StepDone /\ steps = 1 /\ S3Entry /\ opcode = 0) =>
        /\ BusByte(Ctx, 65532) = 81
        /\ BusByte(Ctx, 65533) = 1
        /\ registers.sp = 65532
        /\ registers.pc = 64
        /\ BitAnd(int_flags, 1) = 0
        /\ ~interrupt_master_enabled

C3_Witness ==
    /\ StepDone /\ steps = 1 /\ S3Entry /\ opcode = 0
    /\ served = IT_VBLANK
    /\ registers.pc = 64

\* C4 (interrupt priority): at the interrupt check of a step with IME set
\* and at least one source pending and enabled, the source serviced is the
\* ready one with the lowest bit number, PC is its vector, and only its bit
\* leaves IF.
C4_Priority ==
    [][(/\ CheckStep
        /\ interrupt_master_enabled
        /\ Ready(ie_register, int_flags) # {}
        /\ ~exited') =>
           /\ served' = First(ie_register, int_flags)
           /\ registers'.pc = Vector(First(ie_register, int_flags))
           /\ int_flags' = int_flags - First(ie_register, int_flags)]_vars

\* several sources were ready, TIMER was serviced and JOYPAD is still
\* pending
C4_Witness ==
    /\ StepDone
    /\ served = IT_TIMER
    /\ registers.pc = TIMER_ADDR
    /\ BitAnd(int_flags, IT_JOYPAD) # 0
    /\ BitAnd(ie_register, IT_JOYPAD) # 0

\* C5 (HALT wake-up): a step that finds the CPU halted fetches nothing and
\* leaves PC alone; it leaves the CPU halted when IE & IF = 0 and wakes it
\* when some bit of IE & IF is set, whatever IME is.
C5_HaltWake ==
    (cpu_pos = "int" /\ entry.halted /\ ~exited) =>
        /\ registers.pc = entry.pc
        /\ opcode = entry.opcode
        /\ halted <=> (BitAnd(ie_register, int_flags) = 0)

(***************************************************************************)
(* SpecTimerTick: single ticks of the timer from the counter values next   *)
(* to the falling edges, with the guest writing the timer registers.       *)
(***************************************************************************)
MaxTicks == 3

\* 0xABCC (Timer::new), and the values before a falling edge of bit 3, 5, 7
\* and 9
DivSamples == {43980, 15, 63, 255, 1023}

TimerData ==
    [a \in {DIV_ADDR, TIMA_ADDR, TMA_ADDR, TAC_ADDR} |->
        CASE a = DIV_ADDR  -> {0, 255}
          [] a = TIMA_ADDR -> {0, 254, 255}
          [] a = TMA_ADDR  -> {0, 80}
          [] a = TAC_ADDR  -> {1, 4, 5, 6, 7}]

InitTimerTick ==
    /\ CpuDefault
    /\ cartridge = CartridgeInit(0, 0, 32768)
    /\ RamDefault /\ DmaDefault /\ PpuDefault
    /\ timer \in [div : DivSamples, tima : {0}, tma : {0}, tac : {0}]
    /\ exited = FALSE
    /\ CpuObsDefault /\ TimerObsDefault
    /\ nticks = 0
    /\ BusObsDefault /\ PpuObsDefault /\ IoDefault

\* One T-cycle of the timer
TimerTick ==
    /\ nticks < MaxTicks
    /\ Commit(timer_cycle(Ctx, Timer_tick(timer)))
    /\ tick_ret' = Timer_tick(timer).ret
    /\ tick_inc' = (timer_update(timer.div, U16(timer.div + 1), timer.tac)
                       /\ is_enabled(timer))
    /\ nticks' = nticks + 1
    /\ UNCHANGED <<cpuObs, anchor, since, incs, busObs,
                   frame_obs>>

\* The guest writes a timer register (io_write -> Timer::write)
TimerWrite ==
    /\ \E a \in DOMAIN TimerData : \E data \in TimerData[a] :
           timer' = Timer_write(timer, a, data).t
    /\ UNCHANGED <<cpuVars, memVars, dmaVars, ppuVars, exited, cpuObs, timerObs,
                   nticks, busObs,
                   frame_obs, clock_obs, ioVars>>

NextTimerTick == TimerTick \/ TimerWrite

SpecTimerTick == InitTimerTick /\ [][NextTimerTick]_vars

\* C6 (timer overflow): a tick reloads TIMA from TMA and asks for IT_TIMER
\* (Timer::tick returns true) exactly when its increment takes TIMA from
\* 0xFF to 0x00; any other tick asks for nothing and leaves TIMA
\* incremented (0xFF after 0xFE) or untouched.
C6_Overflow ==
    [][(nticks' = nticks + 1) =>
          IF tick_inc' /\ timer.tima = 255
          THEN tick_ret' /\ timer'.tima = timer.tma
          ELSE /\ ~tick_ret'
               /\ timer'.tima = IF tick_inc' THEN timer.tima + 1
                                ELSE timer.tima]_vars

(***************************************************************************)
(* SpecTimer: the enabled timer running, with the guest writing DIV.       *)
(* anchor tells what the ticks in since are counted from: the last TIMA    *)
(* increment ("inc") or the last write to DIV ("div").                     *)
(***************************************************************************)
MaxIncs == 2

InitTimer ==
    /\ CpuDefault
    /\ cartridge = CartridgeInit(0, 0, 32768)
    /\ RamDefault /\ DmaDefault /\ PpuDefault
    /\ timer \in [div : {43980}, tima : {0}, tma : {0}, tac : {4, 5, 6, 7}]
    /\ exited = FALSE
    /\ CpuObsDefault /\ TimerObsDefault
    /\ nticks = 0
    /\ BusObsDefault /\ PpuObsDefault /\ IoDefault

\* One T-cycle of the running timer
TimerRun ==
    /\ incs < MaxIncs
    /\ Commit(timer_cycle(Ctx, Timer_tick(timer)))
    /\ tick_ret' = Timer_tick(timer).ret
    /\ tick_inc' = (timer_update(timer.div, U16(timer.div + 1), timer.tac)
                       /\ is_enabled(timer))
    /\ anchor' = IF tick_inc' THEN "inc" ELSE anchor
    /\ since' = IF tick_inc' THEN 0 ELSE since + 1
    /\ incs' = IF tick_inc' THEN incs + 1 ELSE incs
    /\ UNCHANGED <<cpuObs, nticks, busObs,
                   frame_obs>>

\* The guest writes DIV (io_write -> Timer::write)
WriteDIV ==
    /\ \E data \in {0, 171, 255} :
           timer' = Timer_write(timer, DIV_ADDR, data).t
    /\ anchor' = "div"
    /\ since' = 0
    /\ UNCHANGED <<cpuVars, memVars, dmaVars, ppuVars, exited, cpuObs, tick_ret,
                   tick_inc, incs, nticks, busObs,
                   frame_obs, clock_obs, ioVars>>

NextTimer == TimerRun \/ WriteDIV

SpecTimer == InitTimer /\ [][NextTimer]_vars

\* The number of ticks between increments for a TAC selector
Period(tac) ==
    CASE tac % 4 = 0 -> 1024
      [] tac % 4 = 1 -> 16
      [] tac % 4 = 2 -> 64
      [] tac % 4 = 3 -> 256

\* C7 (timer period): with the timer enabled, a tick increments TIMA
\* exactly when it is the Period(TAC)-th tick since the last increment or
\* since the last write to DIV; a write to DIV leaves the counter at 0.
C7_Period ==
    [][/\ (since' = 0 /\ anchor' = "div") => timer'.div = 0
       /\ (tick_inc' /\ incs' = incs + 1 /\ anchor # "none")
             => since + 1 = Period(timer.tac)
       /\ (since' = since + 1 /\ anchor # "none")
             => since' < Period(timer.tac)]_vars

\* TIMA was incremented 1024 ticks after a write to DIV
C7_Witness ==
    /\ timer.tac = 4
    /\ timer.div = 1024
    /\ tick_inc
    /\ anchor = "inc" /\ since = 0
    /\ timer.tima >= 1

(***************************************************************************)
(* SpecDma: the guest fills work RAM, starts OAM DMA through the LCD       *)
(* register 0xFF46 and accesses the bus while the engine runs.             *)
(***************************************************************************)
MaxDmaTicks == 163

\* source pages: work RAM, cartridge RAM, 0x8000, video RAM, OAM
PageSamples == {192, 160, 128, 129, 254}

\* work RAM 0xC000 and 0xC09F, OAM 0xFE00 and 0xFE9F, the DMA register
BusSamples == {49152, 49311, 65024, 65183, DMA_ADDR}

\* a ROM read in bounds, bytes 0
DmaInp == [wild |-> 0, fault |-> FALSE, debug |-> FALSE]

InitDma ==
    /\ CpuDefault
    /\ cartridge = CartridgeInit(0, 0, 32768)
    /\ RamDefault /\ TimerDefault /\ DmaDefault /\ PpuDefault
    /\ exited = FALSE
    /\ CpuObsDefault /\ TimerObsDefault /\ BusObsDefault /\ PpuObsDefault /\ IoDefault
    /\ nticks = 0

\* The guest writes a byte over the bus
BusWrite ==
    /\ ~exited
    /\ \E a \in BusSamples, data \in {90} :
           /\ Commit(AddressBus_write(Ctx, a, data))
           /\ bus_op' = [kind |-> "write", address |-> a,
                         active |-> is_transferring(dma)]
    /\ UNCHANGED <<cpuObs, timerObs, nticks, last_read,
                   frame_obs>>

\* The guest reads a byte over the bus
BusRead ==
    /\ ~exited
    /\ \E a \in BusSamples :
           /\ last_read' = AddressBus_read(Ctx, a, DmaInp).val
           /\ exited' = AddressBus_read(Ctx, a, DmaInp).exit
           /\ bus_op' = [kind |-> "read", address |-> a,
                         active |-> is_transferring(dma)]
    /\ UNCHANGED <<cpuVars, memVars, timer, dmaVars, ppuVars, cpuObs, timerObs,
                   nticks,
                   frame_obs, clock_obs, ioVars>>

\* The guest writes a page to the DMA register (io_write -> LCD::write)
LcdWrite ==
    /\ ~exited
    /\ \E page \in PageSamples : Commit(LCD_write(Ctx, DMA_ADDR, page))
    /\ nticks' = 0
    /\ bus_op' = NoBusOp
    /\ UNCHANGED <<cpuObs, timerObs, last_read,
                   frame_obs>>

\* One tick of the DMA engine; nticks counts the ticks since the start
DmaTick ==
    /\ ~exited
    /\ nticks < MaxDmaTicks
    /\ Commit(DMA_tick(Ctx, DmaInp))
    /\ nticks' = nticks + 1
    /\ bus_op' = NoBusOp
    /\ UNCHANGED <<cpuObs, timerObs, last_read,
                   frame_obs>>

NextDma == BusWrite \/ BusRead \/ LcdWrite \/ DmaTick

SpecDma == InitDma /\ [][NextDma]_vars

\* An address of OAM
InOam(address) == 65024 <= address /\ address <= 65183

\* C8 (DMA exclusivity): a bus read of an OAM address made while the DMA
\* engine is active returns 0xFF; a bus write to an OAM address made while
\* it is active leaves OAM as it was and does not stop the emulator.
C8_Exclusive ==
    [][/\ (bus_op'.kind = "read" /\ bus_op'.active /\ InOam(bus_op'.address))
             => last_read' = 255
       /\ (bus_op'.kind = "write" /\ bus_op'.active
                                  /\ InOam(bus_op'.address))
             => (oam_ram' = oam_ram /\ ~exited')]_vars

\* OAM holds the 160 bytes the bus returns for the page
OamIsPage(s, page) ==
    /\ \A i \in 0..159 : Peek(s.oam_ram, i) = BusByte(s, page * 256 + i)
    /\ DOMAIN s.oam_ram \subseteq 0..159

\* a transfer is under way or has ended: the DMA register was written and
\* the engine has been ticked nticks times since
Started == lcd_dma \in PageSamples /\ dma.value = lcd_dma

\* C9 (DMA completion): after a write of page P to 0xFF46 the engine is
\* active through the next 161 ticks, and on the 162nd it is inactive and
\* OAM[i] is the byte at bus address (P << 8) | i for i in 0..159, no other
\* OAM byte written.
C9_Completion ==
    [][(Started /\ nticks' = nticks + 1) =>
          /\ ~exited'
          /\ (nticks' <= 161 => dma'.active)
          /\ (nticks' = 162 => (~dma'.active /\ OamIsPage(Ctx', lcd_dma)))]_vars

(***************************************************************************)
(* SpecCart: the guest writes the registers of a cartridge and its RAM     *)
(* window over the bus, and reads the switchable ROM window.               *)
(***************************************************************************)
\* cartridge type and RAM size code of the header: ROM only, MBC1 without
\* RAM, MBC1+RAM+BATTERY with four RAM banks
HeaderSamples == {<<0, 0>>, <<1, 0>>, <<3, 3>>}

\* a ROM image of 32 banks
RomSizeSample == 32 * BankSize

\* RAM enable, ROM bank select (both ends), RAM bank select, banking mode,
\* cartridge RAM
CartAddrs == {0, 8192, 16383, 16384, 24576, 40960}

\* the bytes written: to the ROM bank select register, bank numbers with
\* and without bits above the five the register holds
CartData(a) ==
    CASE a = 0     -> {0, 10}
      [] a = 8192  -> {0, 1, 2, 31, 32, 33, 64, 128, 224, 255}
      [] a = 16383 -> {0, 32, 33}
      [] a = 16384 -> {0, 1}
      [] a = 24576 -> {0, 1}
      [] a = 40960 -> {90}

\* the image of a ROM-only cartridge has two banks, that of an MBC1
\* cartridge RomSizeSample bytes
RomSizeOf(h) == IF h[1] = 0 THEN 2 * BankSize ELSE RomSizeSample

\* The ROM image of the cartridges: a jump opcode at 0x0000, bytes at
\* 0x2000 and 0x3FFF, and the bank number at the start of every other bank
CartImage(size) ==
    [i \in {0, 8192, 16383} \cup {k * BankSize : k \in 1..((size \div BankSize) - 1)}
        |-> CASE i = 0     -> 195
              [] i = 8192  -> 32
              [] i = 16383 -> 63
              [] OTHER     -> i \div BankSize]

\* reads stay inside the image
CartInp == [wild |-> 0, fault |-> FALSE, debug |-> FALSE]

\* the addresses read: bank 0, the switchable window, cartridge RAM
CartReadAddrs == {0, 8192, 16383, 16384, 40960, 49151}

InitCart ==
    /\ CpuDefault
    /\ cartridge \in {load_rom_file(CartridgeInit(h[1], h[2], RomSizeOf(h)),
                                    CartImage(RomSizeOf(h))) :
                          h \in HeaderSamples}
    /\ RamDefault /\ TimerDefault /\ DmaDefault /\ PpuDefault
    /\ exited = FALSE
    /\ CpuObsDefault /\ TimerObsDefault /\ BusObsDefault /\ PpuObsDefault /\ IoDefault
    /\ nticks = 0

\* The guest writes a byte to the cartridge over the bus
CartWrite ==
    /\ ~exited
    /\ \E a \in CartAddrs : \E data \in CartData(a) :
           /\ Commit(AddressBus_write(Ctx, a, data))
           /\ bus_op' = [kind |-> "write", address |-> a, active |-> FALSE]
    /\ UNCHANGED <<cpuObs, timerObs, nticks, last_read,
                   frame_obs>>

\* Cartridge::read is called for an address, as the cartridge branch of
\* AddressBus::read calls it
CartRead ==
    /\ ~exited
    /\ \E a \in CartReadAddrs :
         \E r \in {cartridge_byte(Cartridge_read(cartridge, a), CartInp)} :
           /\ last_read' = r.val
           /\ exited' = r.exit
           /\ bus_op' = [kind |-> "read", address |-> a, active |-> FALSE]
    /\ UNCHANGED <<cpuVars, memVars, timer, dmaVars, ppuVars, cpuObs, timerObs,
                   nticks,
                   frame_obs, clock_obs, ioVars>>

\* The battery file is saved: the PPU enters VBLANK with the dirty flag set
CartSave ==
    /\ ~exited
    /\ need_save(cartridge)
    /\ Commit([Ctx EXCEPT !.cartridge = save_if_needed(@)])
    /\ bus_op' = [kind |-> "save", address |-> 0, active |-> FALSE]
    /\ UNCHANGED <<cpuObs, timerObs, nticks, last_read, frame_obs>>

NextCart == CartWrite \/ CartRead \/ CartSave

SpecCart == InitCart /\ [][NextCart]_vars

\* The number of the bank a read of the switchable window 0x4000-0x7FFF
\* resolves to
WindowBank(c) == Cartridge_read(c, 16384).idx \div BankSize

\* C10 (switchable ROM bank is never bank 0): on an MBC1 cartridge the bank
\* mapped at 0x4000-0x7FFF has a number >= 1, whatever bytes were written
\* to 0x2000-0x3FFF.
C10_BankNotZero == mbc1(cartridge) => WindowBank(cartridge) >= 1

\* A read of the address was the last access and it returned
ReadDone(a) == bus_op.kind = "read" /\ bus_op.address = a /\ ~exited

\* C11 (bank-0 immutability): on an MBC1 cartridge, whatever was written
\* below 0x8000 or to cartridge RAM, the ROM image is the one loaded and a
\* read of an address in 0x0000-0x3FFF returns the byte of that image at the
\* address.
C11_Bank0 ==
    mbc1(cartridge) =>
        /\ cartridge.rom = CartImage(cartridge.rom_size)
        /\ \A a \in {0, 8192, 16383} :
               ReadDone(a) => last_read = CartImage(cartridge.rom_size)[a]

\* bank 2 is switched in, RAM banking is on, cartridge RAM was written, and
\* the last byte of bank 0 was read
C11_Witness ==
    /\ mbc1(cartridge)
    /\ cartridge.rom_bank_value = 2
    /\ cartridge.ram_banking
    /\ cartridge.need_save
    /\ Peek(cartridge.ext_ram[0], 0) = 90
    /\ ReadDone(16383)
    /\ last_read = 63

\* An address of the cartridge RAM window
InWindow(a) == 40960 <= a /\ a < 49152

\* C12 (RAM enable gate): while the RAM-enable latch is clear, a cartridge
\* read in 0xA000-0xBFFF returns 0xFF, and a cartridge write there leaves
\* the cartridge, its external RAM and dirty flag included, as it was.
C12_Gate ==
    ~cartridge.ram_enabled =>
        /\ (bus_op.kind = "read" /\ InWindow(bus_op.address))
              => (~exited /\ last_read = 255)
        /\ ~exited =>
              \A a \in {40960, 49151} : \A data \in {0, 90, 255} :
                  Cartridge_write(cartridge, a, data)
                      = [c |-> cartridge, panic |-> FALSE]

(***************************************************************************)
(* SpecPpu: the PPU ticks from power-on while the guest writes LCD          *)
(* registers                                                               *)
(***************************************************************************)
MaxPpuTicks == 920

MaxLcdWrites == 2

\* OAM as a DMA transfer left it: nothing; a sprite on line 0 and one on
\* line 143
OamConfigs == {EmptyMem, Image(<<16, 8, 0, 0, 159, 20>>, 0)}

\* STAT (0xFF41) := 0x00 and 0x40, LY (0xFF44) := 143, SCX (0xFF43) := 7,
\* LCDC (0xFF40) := 0x93 (sprites on)
LcdWrites == {<<65345, 0>>, <<65345, 64>>, <<65348, 143>>, <<65347, 7>>,
              <<65344, 147>>}

\* the line ticks at which the guest's write arrives
WriteTicks == {0, 40, 120}

InitPpu ==
    /\ CpuDefault
    /\ cartridge = CartridgeInit(0, 0, 32768)
    /\ RamDefault /\ TimerDefault /\ PpuDefault
    /\ dma = [active |-> FALSE, byte |-> 0, value |-> 0, start_delay |-> 0]
    /\ lcd_dma = 0
    /\ oam_ram \in OamConfigs
    /\ exited = FALSE
    /\ CpuObsDefault /\ TimerObsDefault /\ BusObsDefault /\ PpuObsDefault /\ IoDefault
    /\ nticks = 0

\* frame_obs after a tick; up tells whether the frame counter went up in it
tick_obs(o, up) ==
    IF up THEN [since |-> 0, gap |-> IF o.since >= 0 THEN o.since + 1 ELSE o.gap]
    ELSE [o EXCEPT !.since = IF @ >= 0 THEN @ + 1 ELSE @]

\* One T-cycle of the PPU (PPU::tick)
PpuTick ==
    /\ ~exited
    /\ nticks < MaxPpuTicks
    /\ Commit(PPU_tick(Ctx))
    /\ frame_obs' = tick_obs(frame_obs, ppu'.curr_frame # ppu.curr_frame)
    /\ nticks' = nticks + 1
    /\ UNCHANGED <<cpuObs, timerObs, busObs>>

\* The guest writes an LCD register (io_write -> LCD::write)
LcdRegWrite ==
    /\ ~exited
    /\ steps < MaxLcdWrites
    /\ ppu.line_ticks \in WriteTicks
    /\ \E w \in LcdWrites : Commit(LCD_write(Ctx, w[1], w[2]))
    /\ steps' = steps + 1
    /\ UNCHANGED <<cpu_pos, served, entry, timerObs, busObs, nticks,
                   frame_obs>>

NextPpu == PpuTick \/ LcdRegWrite

SpecPpu == InitPpu /\ [][NextPpu]_vars

\* C13 (frame cadence): between two consecutive increments of the frame
\* counter exactly 154 * 456 = 70224 PPU ticks elapse, whatever the guest
\* writes to STAT, LY, SCX and LCDC.
C13_FrameCadence ==
    frame_obs.gap # 0 => frame_obs.gap = LINES_PER_FRAME * TICKS_PER_LINE

\* C14 (scanline mode cycle): on a line with LY < 144 the PPU is in OAM
\* mode during the first 80 ticks of the line, then in XFER until 160
\* pixels are pushed, which happens before tick 456, then in HBLANK until
\* the line has lasted 456 ticks.
C14_ModeCycle ==
    (lcd.ly < Y_RES /\ ~exited) =>
        /\ ppu.line_ticks < TICKS_PER_LINE
        /\ get_lcds_mode(lcd) # MODE_VBLANK
        /\ get_lcds_mode(lcd) = MODE_OAM => ppu.line_ticks < 80
        /\ get_lcds_mode(lcd) = MODE_XFER =>
               (ppu.line_ticks >= 80 /\ ppu.fifo.pushed_x < X_RES)
        /\ get_lcds_mode(lcd) = MODE_HBLANK =>
               (ppu.line_ticks > 80 /\ ppu.fifo.pushed_x >= X_RES)

(***************************************************************************)
(* SpecProg: the CPU runs a program from power-on                          *)
(***************************************************************************)
MaxProgSteps == 4

\* LD A,0x42; LD B,0x03; opcode 0x80; JP 0x0100
S2Rom == <<62, 66, 6, 3, 128, 195, 0, 1>>

\* S2Rom; the same with opcode 0x90; LD BC,0xA5vv; PUSH BC; POP AF; JP 0x0100
\* for three bytes vv; LD A,0x42 and 0xFB, an opcode without descriptor;
\* operands that make 0x80 and 0x90 set Z, H and C
Programs ==
    {S2Rom, <<62, 66, 6, 3, 144, 195, 0, 1>>, <<62, 66, 251>>,
     <<62, 66, 6, 66, 128>>, <<62, 255, 6, 1, 144>>, <<62, 1, 6, 2, 128>>}
    \cup {<<1, v, 165, 197, 241, 195, 0, 1>> : v \in {15, 90, 255}}

ProgImages == {Image(p, 256) : p \in Programs}

\* no wild read: the programs stay inside the ROM image
ProgInputs == [wild : {0}, fault : {FALSE}, debug : BOOLEAN]

InitProg ==
    /\ CpuDefault
    /\ cartridge \in {load_rom_file(CartridgeInit(0, 0, 32768), image) :
                          image \in ProgImages}
    /\ RamDefault /\ TimerDefault /\ DmaDefault /\ PpuDefault
    /\ exited = FALSE
    /\ CpuObsDefault /\ TimerObsDefault
    /\ nticks = 0
    /\ BusObsDefault /\ PpuObsDefault /\ IoDefault

ProgExecute == StepExecuteWithin(MaxProgSteps)

NextProg == ProgExecute \/ StepInterrupts

SpecProg == InitProg /\ [][NextProg]_vars

\* C15 (flag purity): at the end of every CPU step the low nibble of F is
\* zero, POP AF of any stack bytes included.
C15_FlagPurity == cpu_pos = "fetch" => registers.f % 16 = 0

\* POP AF has popped 0xA5FF, pushed from BC
C15_Witness ==
    /\ cpu_pos = "fetch" /\ ~exited
    /\ opcode = 241
    /\ registers.b = 165 /\ registers.c = 255
    /\ registers.a = 165 /\ registers.f = 240

\* The program of scenario S2 is loaded
S2Loaded == cartridge.rom = Image(S2Rom, 256)

\* C16 (scenario S2): after 4 steps of LD A,0x42; LD B,0x03; 0x80; JP 0x0100
\* from the post-boot state, A = 0x45, B = 0x03, F = 0x00 and PC = 0x0100.
C16_S2 ==
    (S2Loaded /\ cpu_pos = "fetch" /\ steps = 4 /\ ~exited) =>
        /\ registers.a = 69
        /\ registers.b = 3
        /\ registers.f = 0
        /\ registers.pc = 256

\* The opcode at PC has no descriptor
NoDescriptorAtPC == ~contains_key(BusByte(Ctx, registers.pc))

\* C20 (decode errors are fatal): a step that fetches an opcode without
\* descriptor ends the emulator in that step, with the registers, the
\* flags, the interrupt state and every memory as they were; nothing
\* executes once the emulator has ended.
C20_DecodeFatal ==
    [][/\ ~exited
       /\ (cpu_pos = "fetch" /\ ~halted /\ NoDescriptorAtPC) =>
              /\ exited'
              /\ registers' = registers
              /\ UNCHANGED <<halted, interrupt_master_enabled, enabling_ime,
                             int_flags, ie_register, memVars, timer, dmaVars,
                             ppuVars>>]_vars

\* LD A,0x42 ran, then the fetch of 0xFB at 0x0102 ended the emulator
C20_Witness ==
    /\ exited
    /\ opcode = 251
    /\ steps = 1
    /\ registers = [PostBoot EXCEPT !.a = 66, !.pc = 258]

(***************************************************************************)
(* SpecBus: the guest reads and writes bytes over the bus, one address of  *)
(* every row of the decode table, with and without a DMA transfer going on *)
(***************************************************************************)
MaxBusOps == 3

\* ROM bank 0 and the switchable window, video RAM (both ends), cartridge
\* RAM, work RAM (both ends), echo RAM (both ends), OAM, the unmapped range
\* (both ends), the DMA register, high RAM (both ends), IE
DecodeAddrs ==
    {0, 16384, 32768, 40959, 40960, 49152, 57343, 57344, 65023, 65024,
     65184, 65279, DMA_ADDR, 65408, 65534, 65535}

\* the byte written: 0x0A to the RAM enable register, 0x5A elsewhere
BusData(a) == IF a = 0 THEN 10 ELSE 90

InitBus ==
    /\ CpuDefault
    /\ cartridge \in {load_rom_file(CartridgeInit(h[1], h[2], RomSizeOf(h)),
                                    CartImage(RomSizeOf(h))) :
                          h \in HeaderSamples}
    /\ RamDefault /\ TimerDefault /\ DmaDefault /\ PpuDefault
    /\ exited = FALSE
    /\ CpuObsDefault /\ TimerObsDefault /\ BusObsDefault /\ PpuObsDefault /\ IoDefault
    /\ nticks = 0

\* The guest writes a byte over the bus
BusPoke ==
    /\ ~exited
    /\ steps < MaxBusOps
    /\ \E a \in DecodeAddrs :
           /\ Commit(AddressBus_write(Ctx, a, BusData(a)))
           /\ bus_op' = [kind |-> "write", address |-> a,
                         active |-> is_transferring(dma)]
    /\ steps' = steps + 1
    /\ UNCHANGED <<cpu_pos, served, entry, timerObs, nticks, last_read,
                   frame_obs>>

\* The guest reads a byte over the bus
BusPeek ==
    /\ ~exited
    /\ steps < MaxBusOps
    /\ \E a \in DecodeAddrs :
           /\ last_read' = AddressBus_read(Ctx, a, DmaInp).val
           /\ exited' = AddressBus_read(Ctx, a, DmaInp).exit
           /\ bus_op' = [kind |-> "read", address |-> a,
                         active |-> is_transferring(dma)]
    /\ steps' = steps + 1
    /\ UNCHANGED <<cpuVars, memVars, timer, dmaVars, ppuVars, cpu_pos, served,
                   entry, timerObs, nticks, frame_obs, clock_obs, ioVars>>

NextBus == BusPoke \/ BusPeek \/ LcdWrite

SpecBus == InitBus /\ [][NextBus]_vars

\* A bus read and a bus write in the context s
Rd(s, a) == AddressBus_read(s, a, DmaInp)

Wr(s, a) == AddressBus_write(s, a, BusData(a))

\* The byte written to a is read back from a
ReadsBack(s, a) ==
    /\ ~Wr(s, a).exited
    /\ Rd(Wr(s, a), a) = [val |-> BusData(a), exit |-> FALSE]

\* A read of a returns 0 and a write to a is ignored
ReadsZero(s, a) == Rd(s, a) = [val |-> 0, exit |-> FALSE] /\ Wr(s, a) = s

\* Work RAM and high RAM addresses of DecodeAddrs
RamAddrs == {49152, 57343, 65408, 65534}

\* C18 (bus decode): a bus access goes to the target the decode table
\* names: the cartridge below 0x8000 and in 0xA000-0xBFFF, video RAM in
\* 0x8000-0x9FFF (a byte written is read back), work RAM and high RAM (a
\* byte written is read back and no other byte changes), echo RAM and the
\* unmapped range (reads 0, writes ignored), the I/O registers in
\* 0xFF00-0xFF7F, IE at 0xFFFF.
C18_Decode ==
    ~exited =>
        /\ \A a \in {0, 16384, 40960} :
               /\ Rd(Ctx, a) = cartridge_byte(Cartridge_read(cartridge, a), DmaInp)
               /\ Wr(Ctx, a) = cartridge_written(
                                   Ctx, Cartridge_write(cartridge, a, BusData(a)))
        /\ \A a \in {32768, 40959} : ReadsBack(Ctx, a)
        /\ \A a \in RamAddrs :
               /\ ReadsBack(Ctx, a)
               /\ \A b \in RamAddrs \ {a} : Rd(Wr(Ctx, a), b) = Rd(Ctx, b)
        /\ \A a \in {57344, 65023, 65184, 65279} : ReadsZero(Ctx, a)
        /\ Wr(Ctx, DMA_ADDR) = LCD_write(Ctx, DMA_ADDR, BusData(DMA_ADDR))
        /\ Rd(Ctx, 65535) = [val |-> ie_register, exit |-> FALSE]
        /\ Wr(Ctx, 65535) = [Ctx EXCEPT !.ie_register = BusData(65535)]

\* The last bus access
Access(kind, a) == bus_op.kind = kind /\ bus_op.address = a

\* C19 (guest-visible misuse is not fatal): a write to a ROM address of a
\* cartridge without bank registers, a read of cartridge RAM that is
\* disabled or absent, and an access to OAM during a DMA transfer do not end
\* the emulator; the reads return 0xFF and the writes change no memory.
C19_Misuse ==
    /\ (Access("read", 40960)
           /\ (~cartridge.ram_enabled \/ cartridge.ram_bank = NullBank))
          => (~exited /\ last_read = 255)
    /\ (Access("read", 65024) /\ bus_op.active) => (~exited /\ last_read = 255)
    /\ (Access("write", 65024) /\ bus_op.active) => ~exited
    /\ (Access("write", 0) /\ ~mbc1(cartridge)) => ~exited
    /\ (~exited /\ ~mbc1(cartridge)) => Wr(Ctx, 0) = Ctx
    /\ (~exited /\ is_transferring(dma)) => Wr(Ctx, 65024) = Ctx

(***************************************************************************)
(* SpecClock: the clock scheduler (Emulator::cycles as cpu.rs calls it).   *)
(* The body cpu.rs calls is not part of the sources at hand; it is         *)
(* modelled after section 4.8 of the specification: per M-cycle the timer  *)
(* and the PPU are ticked four times and the DMA engine once.  The CPU     *)
(* charges M-cycles only through Emulator::cycles, 1 or 2 at a call site.  *)
(***************************************************************************)
MaxCharged == 8

\* the arguments of the Emulator::cycles call sites of cpu.rs
ChargeSizes == {1, 2}

\* the timer stopped, and the timer the guest has enabled at one TIMA step
\* per 16 ticks with TIMA one step before its reload
TimerSamples ==
    {[div |-> 43980, tima |-> 0, tma |-> 0, tac |-> 0],
     [div |-> 43980, tima |-> 254, tma |-> 0, tac |-> 5]}

\* one Timer::tick by the scheduler
timer_ticked(s) ==
    [timer_cycle(s, Timer_tick(s.timer)) EXCEPT !.clock.timer = @ + 1]

\* one PPU::tick by the scheduler
ppu_ticked(s) ==
    IF s.exited THEN s ELSE [PPU_tick(s) EXCEPT !.clock.ppu = @ + 1]

\* one DMA::tick by the scheduler
dma_ticked(s, inp) ==
    IF s.exited THEN s ELSE [DMA_tick(s, inp) EXCEPT !.clock.dma = @ + 1]

\* one T-cycle
t_cycle(s) == ppu_ticked(timer_ticked(s))

\* one M-cycle: four T-cycles, then the DMA engine
m_cycle(s, inp) == dma_ticked(t_cycle(t_cycle(t_cycle(t_cycle(s)))), inp)

\* Emulator::cycles(n)
RECURSIVE Emulator_cycles(_, _, _)
Emulator_cycles(s, n, inp) ==
    IF n = 0 \/ s.exited THEN s
    ELSE Emulator_cycles(m_cycle([s EXCEPT !.clock.charged = @ + 1], inp),
                         n - 1, inp)

InitClock ==
    /\ CpuDefault
    /\ cartridge = CartridgeInit(0, 0, 32768)
    /\ RamDefault /\ DmaDefault /\ PpuDefault
    /\ timer \in TimerSamples
    /\ exited = FALSE
    /\ CpuObsDefault /\ TimerObsDefault /\ BusObsDefault /\ PpuObsDefault /\ IoDefault
    /\ nticks = 0

\* An instruction charges n M-cycles (Emulator::cycles(n))
Charge ==
    /\ ~exited
    /\ \E n \in ChargeSizes :
           /\ clock_obs.charged + n <= MaxCharged
           /\ Commit(Emulator_cycles(Ctx, n, DmaInp))
    /\ UNCHANGED <<cpuObs, timerObs, busObs, nticks, frame_obs>>

NextClock == Charge \/ LcdWrite

SpecClock == InitClock /\ [][NextClock]_vars

INT_FLAGS_ADDR == 65295

LCD_START_ADDR == 65344

LCD_END_ADDR == 65355

\* GamePad::set_select
set_select(g, value) ==
    [g EXCEPT !.button_select = (BitAnd(value, 32) # 0),
              !.dir_select = (BitAnd(value, 16) # 0)]

\* `output &= !(1 << n)` if the key is pressed
key_off(output, pressed, n) ==
    IF pressed THEN BitAnd(output, 255 - 2 ^ n) ELSE output

\* GamePad::get_output, the block of the button group
buttons_off(output, c) ==
    key_off(key_off(key_off(key_off(output, c.start, 3), c.select, 2),
                    c.b, 1), c.a, 0)

\* GamePad::get_output, the block of the direction group
dirs_off(output, c) ==
    key_off(key_off(key_off(key_off(output, c.right, 0), c.left, 1),
                    c.up, 2), c.down, 3)

\* GamePad::get_output with the button block run whatever is selected
get_output_unselected(g) ==
    IF ~g.dir_select
    THEN dirs_off(buttons_off(207, g.controller), g.controller)
    ELSE buttons_off(207, g.controller)

\* GamePad::get_output
get_output(g) ==
    IF ~g.dir_select
    THEN dirs_off(IF ~g.button_select THEN buttons_off(207, g.controller)
                  ELSE 207, g.controller)
    ELSE IF ~g.button_select THEN buttons_off(207, g.controller) ELSE 207

\* LCD::read
LCD_read(s, addr) ==
    CASE addr = 65344 -> s.lcd.lcdc
      [] addr = 65345 -> s.lcd.lcds
      [] addr = 65346 -> s.lcd.scroll_y
      [] addr = 65347 -> s.lcd.scroll_x
      [] addr = 65348 -> s.lcd.ly
      [] addr = 65349 -> s.lcd.lyc
      [] addr = DMA_ADDR -> s.lcd_dma
      [] addr = 65351 -> s.lcd.bg_palette
      [] addr = 65352 -> s.lcd.obj_palette[1]
      [] addr = 65353 -> s.lcd.obj_palette[2]
      [] addr = 65354 -> s.lcd.win_y
      [] addr = 65355 -> s.lcd.win_x

\* io_read
io_read(s, address) ==
    IF address = 65280 THEN get_output(s.gamepad)
    ELSE IF address = 65281 THEN s.serial_data[1]
    ELSE IF address = 65282 THEN s.serial_data[2]
    ELSE IF DIV_ADDR <= address /\ address <= TAC_ADDR
    THEN Timer_read(s.timer, address).val
    ELSE IF address = INT_FLAGS_ADDR THEN s.int_flags
    ELSE IF LCD_START_ADDR <= address /\ address <= LCD_END_ADDR
    THEN LCD_read(s, address)
    ELSE 0

\* io_write
io_write(s, address, data) ==
    IF address = 65280 THEN [s EXCEPT !.gamepad = set_select(@, data)]
    ELSE IF address = 65281 THEN [s EXCEPT !.serial_data[1] = data]
    ELSE IF address = 65282 THEN [s EXCEPT !.serial_data[2] = data]
    ELSE IF DIV_ADDR <= address /\ address <= TAC_ADDR
    THEN [s EXCEPT !.timer = Timer_write(@, address, data).t]
    ELSE IF address = INT_FLAGS_ADDR THEN [s EXCEPT !.int_flags = data]
    ELSE IF LCD_START_ADDR <= address /\ address <= LCD_END_ADDR
    THEN LCD_write(s, address, data)
    ELSE s

\* handle_key_event (ui.rs) for the key of a field of the game pad state
handle_key_event(s, down, key) ==
    [s EXCEPT !.gamepad.controller[key] = down]

(***************************************************************************)
(* SpecPad: the UI thread reports key events while the guest selects a     *)
(* group of keys at 0xFF00 and reads the register.                         *)
(***************************************************************************)
Keys == {"start", "select", "a", "b", "up", "down", "left", "right"}

\* the bytes the guest writes to 0xFF00: both groups, one group, no group,
\* and bytes with other bits set
SelectBytes == {0, 16, 32, 48, 207, 239}

InitPad ==
    /\ CpuDefault
    /\ cartridge = CartridgeInit(0, 0, 32768)
    /\ RamDefault /\ TimerDefault /\ DmaDefault /\ PpuDefault
    /\ exited = FALSE
    /\ CpuObsDefault /\ TimerObsDefault /\ BusObsDefault /\ PpuObsDefault
    /\ IoDefault
    /\ nticks = 0

\* The UI thread handles a key event
KeyEvent ==
    /\ ~exited
    /\ \E key \in Keys, down \in BOOLEAN :
           Commit(handle_key_event(Ctx, down, key))
    /\ bus_op' = NoBusOp
    /\ UNCHANGED <<cpuObs, timerObs, nticks, last_read, frame_obs>>

\* The guest writes 0xFF00
PadSelect ==
    /\ ~exited
    /\ \E data \in SelectBytes : Commit(io_write(Ctx, 65280, data))
    /\ bus_op' = [kind |-> "write", address |-> 65280, active |-> FALSE]
    /\ UNCHANGED <<cpuObs, timerObs, nticks, last_read, frame_obs>>

\* The guest reads 0xFF00
PadRead ==
    /\ ~exited
    /\ last_read' = io_read(Ctx, 65280)
    /\ bus_op' = [kind |-> "read", address |-> 65280, active |-> FALSE]
    /\ UNCHANGED <<cpuVars, memVars, timer, dmaVars, ppuVars, exited, cpuObs,
                   timerObs, nticks, frame_obs, clock_obs, ioVars>>

NextPad == KeyEvent \/ PadSelect \/ PadRead

SpecPad == InitPad /\ [][NextPad]_vars

\* Bit n of the low nibble as the joypad contract gives it: 0 exactly when
\* the key of the button group (btn) or of the direction group (dir) at
\* that bit is pressed and its group is selected
PadBit(g, btn, dir) ==
    IF \/ (~g.button_select /\ g.controller[btn])
       \/ (~g.dir_select /\ g.controller[dir])
    THEN 0 ELSE 1

\* The byte the joypad contract gives for the game pad g
PadByte(g) ==
    192 + PadBit(g, "a", "right") + 2 * PadBit(g, "b", "left")
        + 4 * PadBit(g, "select", "up") + 8 * PadBit(g, "start", "down")

\* The keys of the groups that are not selected
Unselected(g) ==
    (IF g.button_select THEN {"start", "select", "a", "b"} ELSE {})
        \cup (IF g.dir_select THEN {"up", "down", "left", "right"} ELSE {})

\* C22 (joypad read): a read of 0xFF00 returns 0xC0 ORed with a low nibble
\* in which a bit is 0 exactly when the key at that bit of a selected group
\* is pressed, and changing any key of a group that is not selected leaves
\* the byte a read returns as it is.
C22_Joypad ==
    /\ ReadDone(65280) => last_read = PadByte(gamepad)
    /\ io_read(Ctx, 65280) = PadByte(gamepad)
    /\ \A key \in Unselected(gamepad), down \in BOOLEAN :
           io_read(handle_key_event(Ctx, down, key), 65280)
               = io_read(Ctx, 65280)

\* only the direction group is selected, A and Left are pressed, and the
\* read returns 0xCD: Left shows, A does not
C22_Witness ==
    /\ ReadDone(65280)
    /\ gamepad.button_select /\ ~gamepad.dir_select
    /\ gamepad.controller.a /\ gamepad.controller.left
    /\ ~gamepad.controller.right /\ ~gamepad.controller.up
    /\ ~gamepad.controller.down
    /\ last_read = 205

(***************************************************************************)
(* Serial debug port (dbg.rs).  SpecSerial: CPU steps whose instruction    *)
(* writes the serial registers; every step calls dbg_update before it      *)
(* executes its instruction.                                               *)
(***************************************************************************)
MaxSerialSteps == 4

\* the guest's write to a serial register (io_write), and what it sends:
\* a write of 0x81 to 0xFF02 sends the byte 0xFF01 holds
serial_write(s, address, data) ==
    [io_write(s, address, data) EXCEPT
        !.sent = IF address = 65282 /\ data = 129
                 THEN Append(@, s.serial_data[1]) ELSE @]

\* the writes of the instructions: bytes to 0xFF01, 0x81 and 0x80 to 0xFF02
SerialWrites == {<<65281, 72>>, <<65281, 105>>, <<65282, 129>>, <<65282, 128>>}

InitSerial ==
    /\ CpuDefault
    /\ cartridge = CartridgeInit(0, 0, 32768)
    /\ RamDefault /\ TimerDefault /\ DmaDefault /\ PpuDefault
    /\ exited = FALSE
    /\ CpuObsDefault /\ TimerObsDefault /\ BusObsDefault /\ PpuObsDefault
    /\ IoDefault
    /\ nticks = 0

\* A step whose instruction writes a serial register: dbg_update, then the
\* write
SerialStep ==
    /\ ~exited
    /\ steps < MaxSerialSteps
    /\ \E w \in SerialWrites :
           /\ Commit(serial_write(dbg_update(Ctx, DmaInp), w[1], w[2]))
           /\ bus_op' = [kind |-> "write", address |-> w[1], active |-> FALSE]
    /\ steps' = steps + 1
    /\ UNCHANGED <<cpu_pos, served, entry, timerObs, nticks, last_read,
                   frame_obs>>

\* A step whose instruction writes no serial register
PlainStep ==
    /\ ~exited
    /\ steps < MaxSerialSteps
    /\ Commit(dbg_update(Ctx, DmaInp))
    /\ bus_op' = NoBusOp
    /\ steps' = steps + 1
    /\ UNCHANGED <<cpu_pos, served, entry, timerObs, nticks, last_read,
                   frame_obs>>

NextSerial == SerialStep \/ PlainStep

SpecSerial == InitSerial /\ [][NextSerial]_vars

\* The last step's instruction wrote 0x81 to 0xFF02
JustSent ==
    bus_op.kind = "write" /\ bus_op.address = 65282 /\ serial_data[2] = 129

\* a sequence without its last element
Front(q) == SubSeq(q, 1, Len(q) - 1)

\* C23 (serial debug port): between two steps the debug buffer holds, in
\* order, one byte per guest write of 0x81 to 0xFF02 (the byte 0xFF01 held
\* at the write), but for a write of the step just made, and 0xFF02 no
\* longer holds 0x81 once the byte of a write is in the buffer.
C23_Serial ==
    ~exited =>
        /\ dbg_msg = IF JustSent THEN Front(serial_obs) ELSE serial_obs
        /\ ~JustSent => serial_data[2] # 129

\* C24 (dirty flag lifecycle): a write that stores a byte into the external
\* RAM of a cartridge with a battery leaves the dirty flag set, and when
\* save_battery has completed need_save() returns false.
C24_Dirty ==
    [][/\ (cartridge'.ext_ram # cartridge.ext_ram /\ has_battery(cartridge))
              => need_save(cartridge')
       /\ bus_op'.kind = "save" => ~need_save(cartridge')]_vars

(***************************************************************************)
(* The deferred EI, DI and the instructions that set IME, on the runs of   *)
(* SpecCpu                                                                 *)
(***************************************************************************)
\* The first part of a step has fetched the opcode op
Fetches(op) == cpu_pos = "fetch" /\ cpu_pos' = "int" /\ opcode' = op

\* The context at the end of a step whose instruction was EI (exec_ei, then
\* the end of CPU::step), had it started in s
AfterEI(s) == step_interrupts(exec_ei(s)).s

\* The same for DI
AfterDI(s) == step_interrupts(exec_di(s)).s

C27_NoSameStep == [][(CheckStep /\ ~entry.ime) => served' = 0]_vars

(***************************************************************************)
(* SpecFlow: conditional jumps, calls and the stack, from power-on         *)
(***************************************************************************)
MaxFlowSteps == 4

\* A conditional JR, JP or CALL as the first instruction (F = 0xB0: Z and C
\* set) and after opcode 0x90, which clears the flags (F = 0x00); CALL a16
\* and JR r8
FlowPrograms ==
    {<<op, 80, 1>> : op \in JpOps \cup CallOps \cup {205}}
    \cup {<<144, op, 80, 1>> : op \in JpOps \cup CallOps}
    \cup {<<op, r>> : op \in JrOps \cup {24}, r \in {5, 251}}
    \cup {<<144, op, r>> : op \in JrOps, r \in {5, 251}}

\* LD rr,d16; PUSH rr; POP rr, with the stack in high RAM and, after
\* LD SP,0xD000, in work RAM; PUSH AF; POP AF with F = 0xB0 and F = 0x00
StackPrograms ==
    {<<ld, 52, 18, ld + 196, ld + 192>> : ld \in {1, 17, 33}}
    \cup {<<49, 0, 208, ld, 205, 171, ld + 196, ld + 192>> : ld \in {1, 17, 33}}
    \cup {<<245, 241>>, <<144, 245, 241>>, <<49, 0, 208, 245, 241>>}

FlowImages == {Image(p, 256) : p \in FlowPrograms \cup StackPrograms}

InitFlow ==
    /\ CpuDefault
    /\ cartridge \in {load_rom_file(CartridgeInit(0, 0, 32768), image) :
                          image \in FlowImages}
    /\ RamDefault /\ TimerDefault /\ DmaDefault /\ PpuDefault
    /\ exited = FALSE
    /\ CpuObsDefault /\ TimerObsDefault
    /\ nticks = 0
    /\ BusObsDefault /\ PpuObsDefault /\ IoDefault

FlowExecute == StepExecuteWithin(MaxFlowSteps)

NextFlow == FlowExecute \/ StepInterrupts

SpecFlow == InitFlow /\ [][NextFlow]_vars

\* The 16-bit operand after the opcode at PC
Operand16 ==
    BusByte(Ctx, U16(registers.pc + 1))
        + 256 * BusByte(Ctx, U16(registers.pc + 2))

\* The address after the instruction at PC and the address it names
NextInstr(op) == U16(registers.pc + (IF op \in JrOps THEN 2 ELSE 3))

Target(op) ==
    IF op \in JrOps
    THEN U16(registers.pc + 2 + AsSigned8(BusByte(Ctx, U16(registers.pc + 1))))
    ELSE Operand16

\* The return address is on the stack, SP is two lower
Called(op) ==
    /\ registers'.sp = U16(registers.sp - 2)
    /\ hram' = hram_write(hram_write(hram, U16(registers.sp - 1),
                                      Hi(NextInstr(op))),
                           U16(registers.sp - 2), Lo(NextInstr(op)))

\* C28 (conditional control flow): a step that executes JP cc,a16, JR cc,r8
\* or CALL cc,a16 completes normally; if the condition holds PC becomes the
\* target (CALL pushes the address of the next instruction, SP decreasing by
\* 2), if not PC is the address of the next instruction and SP, memory and
\* flags are unchanged.
C28_CondFlow ==
    [][\A op \in JrOps \cup JpOps \cup CallOps :
           Fetches(op) =>
               /\ ~exited'
               /\ check_cond(Ctx, CondOf(op)) =>
                      /\ registers'.pc = Target(op)
                      /\ op \in CallOps => Called(op)
               /\ ~check_cond(Ctx, CondOf(op)) =>
                      /\ registers'.pc = NextInstr(op)
                      /\ registers'.sp = registers.sp
                      /\ registers'.f = registers.f
                      /\ wram' = wram /\ hram' = hram]_vars

\* The same for the conditional jumps alone
CondJumps ==
    [][\A op \in JrOps \cup JpOps :
           Fetches(op) =>
               /\ ~exited'
               /\ check_cond(Ctx, CondOf(op)) => registers'.pc = Target(op)
               /\ ~check_cond(Ctx, CondOf(op)) =>
                      /\ registers'.pc = NextInstr(op)
                      /\ registers'.sp = registers.sp
                      /\ registers'.f = registers.f
                      /\ wram' = wram /\ hram' = hram]_vars

\* A conditional call ends the process, taken or not
CondCallExits == [][\A op \in CallOps : Fetches(op) => exited']_vars

\* CALL a16 pushes the return address and jumps
PlainCall ==
    [][Fetches(205) =>
           (~exited' /\ registers'.pc = Operand16 /\ Called(205))]_vars

PushOps == {197, 213, 229, 245}

PopOps == {193, 209, 225, 241}

\* The register pair of a PUSH or POP, before and after the step
Pair(op) == read_reg(Ctx, INSTRUCTIONS(op).reg1)

PairAfter(op) == read_reg(Ctx', INSTRUCTIONS(op).reg1)

\* The word a POP finds: low byte at SP, high byte at SP + 1; the low
\* nibble of F does not exist
StackWord(op) ==
    256 * BusByte(Ctx, U16(registers.sp + 1))
        + (IF op = 241
           THEN BusByte(Ctx, registers.sp) - (BusByte(Ctx, registers.sp) % 16)
           ELSE BusByte(Ctx, registers.sp))

\* C29 (stack discipline): PUSH rr writes the high byte of rr at SP-1 and
\* the low byte at SP-2 and leaves SP decreased by 2; POP rr reads the low
\* byte at SP and the high byte at SP+1 and leaves SP increased by 2; a
\* POP rr right after PUSH rr, with the stack in RAM, restores rr and SP,
\* for rr in BC, DE, HL, AF.
C29_Stack ==
    [][/\ \A op \in PushOps :
              (Fetches(op) /\ InRam(U16(registers.sp - 1))
                           /\ InRam(U16(registers.sp - 2))) =>
                  /\ ~exited'
                  /\ registers'.sp = U16(registers.sp - 2)
                  /\ BusByte(Ctx', U16(registers.sp - 1)) = Hi(Pair(op))
                  /\ BusByte(Ctx', U16(registers.sp - 2)) = Lo(Pair(op))
                  /\ PairAfter(op) = Pair(op)
       /\ \A op \in PopOps :
              (Fetches(op) /\ InRam(registers.sp)
                           /\ InRam(U16(registers.sp + 1))) =>
                  /\ ~exited'
                  /\ registers'.sp = U16(registers.sp + 2)
                  /\ PairAfter(op) = StackWord(op)
                  /\ (opcode = op + 4 /\ steps > 0) =>
                         /\ PairAfter(op) = Pair(op)
                         /\ registers'.sp = entry.sp]_vars

\* POP DE has restored DE = 0xABCD and SP = 0xD000 after PUSH DE put 0xAB at
\* 0xCFFF and 0xCD at 0xCFFE
C29_Witness ==
    /\ cpu_pos = "int" /\ ~exited
    /\ opcode = 209 /\ entry.opcode = 213
    /\ registers.d = 171 /\ registers.e = 205
    /\ registers.sp = 53248
    /\ BusByte(Ctx, 53247) = 171 /\ BusByte(Ctx, 53246) = 205

(***************************************************************************)
(* SpecLine: the PPU ticks while the guest writes LY and STAT              *)
(***************************************************************************)
\* LY (0xFF44) := 153, 154 and 200; STAT (0xFF41) := 0x01 (mode VBLANK) and
\* 0x03 (mode XFER)
LineWrites == {<<65348, 153>>, <<65348, 154>>, <<65348, 200>>, <<65345, 1>>,
               <<65345, 3>>}

\* The guest writes LY or STAT (io_write -> LCD::write)
LineWrite ==
    /\ ~exited
    /\ steps < MaxLcdWrites
    /\ ppu.line_ticks \in WriteTicks
    /\ \E w \in LineWrites : Commit(LCD_write(Ctx, w[1], w[2]))
    /\ steps' = steps + 1
    /\ UNCHANGED <<cpu_pos, served, entry, timerObs, busObs, nticks,
                   frame_obs>>

NextLine == PpuTick \/ LineWrite

SpecLine == InitPpu /\ [][NextLine]_vars

\* C30 (PPU state space): after every PPU tick, in every reachable state,
\* guest writes to the LCD registers included, line_ticks is in [0, 456) and
\* LY is in [0, 154).
C30_StateSpace ==
    [][nticks' = nticks + 1 =>
           /\ ppu'.line_ticks < TICKS_PER_LINE
           /\ lcd'.ly < LINES_PER_FRAME]_vars

\* The line counter alone
LineTicksBounded ==
    [][nticks' = nticks + 1 => ppu'.line_ticks < TICKS_PER_LINE]_vars

(***************************************************************************)
(* SpecUi: the UI thread (ui.rs run) beside the emulator-core thread       *)
(*                                                                         *)
(* The two threads share PPU_CTX, a `static mut`, without a lock, a        *)
(* channel or an atomic: any interleaving of their steps can happen.       *)
(* ui.pos is the place of the UI thread in its loop: "poll" (event         *)
(* handling and the comparison of prev_frame with curr_frame), "debug"     *)
(* (update_debug_window), "copy" (update_main_window is cloning            *)
(* video_buffer).                                                          *)
(***************************************************************************)
MaxCoreTicks == 70400

\* One T-cycle of the PPU on the emulator-core thread
CoreTick ==
    /\ ~exited
    /\ nticks < MaxCoreTicks
    /\ Commit(PPU_tick(Ctx))
    /\ frame_obs' = tick_obs(frame_obs, ppu'.curr_frame # ppu.curr_frame)
    /\ nticks' = nticks + 1
    /\ UNCHANGED <<cpuObs, timerObs, busObs>>

\* The UI thread moves to pos with prev_frame prev
UiMove(pos, prev) ==
    /\ ui' = [pos |-> pos, prev_frame |-> prev]
    /\ UNCHANGED <<cpuVars, memVars, timer, dmaVars, ppuVars, exited, cpuObs,
                   timerObs, nticks, busObs, frame_obs, clock_obs, gamepad,
                   serial_data, dbg_msg, serial_obs>>

\* run: `if prev_frame != PPU_CTX.curr_frame` is taken
UiPoll ==
    /\ ui.pos = "poll"
    /\ ui.prev_frame # ppu.curr_frame
    /\ UiMove("debug", ui.prev_frame)

\* run: update_debug_window returns and update_main_window starts to clone
\* video_buffer
UiDebug ==
    /\ ui.pos = "debug"
    /\ UiMove("copy", ui.prev_frame)

\* run: the clone is complete, the window is drawn, and
\* `prev_frame = PPU_CTX.curr_frame`
UiCopy ==
    /\ ui.pos = "copy"
    /\ UiMove("poll", ppu.curr_frame)

NextUi == CoreTick \/ UiPoll \/ UiDebug \/ UiCopy

SpecUi == InitPpu /\ [][NextUi]_vars

\* Between the entry into VBlank and the start of the next XFER
InBlank(l) ==
    \/ get_lcds_mode(l) = MODE_VBLANK
    \/ (get_lcds_mode(l) = MODE_OAM /\ l.ly = 0)

\* The tick stores a pixel in video_buffer
PixelWritten ==
    nticks' = nticks + 1 /\ ppu'.fifo.pushed_x = ppu.fifo.pushed_x + 1

\* C21 (frame-buffer sharing): in every interleaving of the UI thread and
\* the emulator-core thread the UI copies the frame buffer only between the
\* PPU's entry into VBlank and the start of the next XFER, so no PPU write to
\* the frame buffer happens while the UI is copying it.
C21_CopyInBlank ==
    [][/\ ui'.pos = "copy" => InBlank(lcd')
       /\ ui.pos = "copy" => ~PixelWritten]_vars

\* The UI starts to copy only after a frame was completed
CopyAfterFrame == ui.pos = "copy" => ppu.curr_frame > ui.prev_frame

(***************************************************************************)
(* Properties of the pixel pipeline                                        *)
(***************************************************************************)
\* The index pipeline_push_pixel computes in the state s
BufferIndex(s) == s.ppu.fifo.pushed_x + s.lcd.ly * X_RES

\* C31 (frame-buffer index safety): every write the PPU makes to the frame
\* buffer uses an index pushed_x + LY * 160 below 160 * 144, also after
\* guest writes to LY and STAT: no PPU tick indexes the buffer out of
\* range, which would end the process.
C31_IndexSafe ==
    [][nticks' = nticks + 1 =>
           /\ ~exited'
           /\ PixelWritten => BufferIndex(Ctx) < X_RES * Y_RES]_vars

\* The index is in range while LY is a visible line
IndexSafeOnScreen ==
    [][(nticks' = nticks + 1 /\ lcd.ly < Y_RES) => ~exited']_vars

(***************************************************************************)
(* SpecLyc: the PPU runs a whole frame after the guest has set LYC and     *)
(* the LYC interrupt enable of STAT                                        *)
(***************************************************************************)
LYC_LY_MASK == 4

\* LYC (0xFF45) := 1; STAT (0xFF41) := 0x42 (LYC interrupt enabled, mode OAM
\* as it is)
LycWrites == {<<65349, 1>>, <<65345, 66>>}

InitLyc == InitPpu /\ oam_ram = EmptyMem

\* The guest writes LYC or STAT before the first tick
LycWrite ==
    /\ ~exited
    /\ nticks = 0
    /\ \E w \in LycWrites :
           /\ LCD_read(Ctx, w[1]) # w[2]
           /\ Commit(LCD_write(Ctx, w[1], w[2]))
    /\ steps' = steps + 1
    /\ UNCHANGED <<cpu_pos, served, entry, timerObs, busObs, nticks,
                   frame_obs>>

NextLyc == CoreTick \/ LycWrite

SpecLyc == InitLyc /\ [][NextLyc]_vars

\* The tick changed LY
LyChanged == nticks' = nticks + 1 /\ lcd'.ly # lcd.ly

\* After the tick LY equals LYC and the LYC interrupt is enabled
Coincides == lcd'.ly = lcd'.lyc /\ get_lcds_flag(lcd', LYC_INT_MASK)

\* C32 (LY == LYC coincidence): after every change the PPU makes to LY, the
\* increments and the wrap from 153 to 0, STAT bit 2 equals (LY == LYC), and
\* the STAT interrupt is requested at that change exactly when LY == LYC and
\* STAT bit 6 is set.
C32_Coincidence ==
    [][LyChanged =>
           /\ get_lcds_flag(lcd', LYC_LY_MASK) = (lcd'.ly = lcd'.lyc)
           /\ Coincides => Flag(int_flags', IT_LCD_STAT)
           /\ ~Coincides =>
                  Flag(int_flags', IT_LCD_STAT) = Flag(int_flags, IT_LCD_STAT)
      ]_vars

\* The same for the increments alone
IncrementsCoincide ==
    [][(LyChanged /\ lcd'.ly = lcd.ly + 1) =>
           /\ get_lcds_flag(lcd', LYC_LY_MASK) = (lcd'.ly = lcd'.lyc)
           /\ Coincides => Flag(int_flags', IT_LCD_STAT)
           /\ ~Coincides =>
                  Flag(int_flags', IT_LCD_STAT) = Flag(int_flags, IT_LCD_STAT)
      ]_vars

\* LY has gone from 0 to 1 = LYC with the interrupt enabled
IncrementSeen ==
    /\ lcd.ly = 1 /\ lcd.lyc = 1
    /\ get_lcds_flag(lcd, LYC_LY_MASK)
    /\ Flag(int_flags, IT_LCD_STAT)

(***************************************************************************)
(* SpecOam: the PPU scans OAM on the first lines of a frame                *)
(***************************************************************************)
\* OAM with the entries ents (<<y, x>> each; tile and flags 0), as a DMA
\* transfer left it
OamOf(ents) ==
    Image([k \in 1..(4 * Len(ents)) |->
               IF k % 4 = 1 THEN ents[(k + 3) \div 4][1]
               ELSE IF k % 4 = 2 THEN ents[(k + 3) \div 4][2]
               ELSE 0], 0)

\* Twelve entries on line 0 with x descending, after one with x = 0 and one
\* of line 40, and an entry 8 lines down in between
CrowdedLine ==
    OamOf(<<<<16, 0>>, <<56, 9>>, <<16, 120>>, <<16, 110>>, <<24, 105>>,
            <<16, 100>>, <<16, 90>>, <<16, 80>>, <<16, 70>>, <<16, 60>>,
            <<16, 50>>, <<16, 40>>, <<16, 30>>, <<16, 20>>, <<16, 10>>>>)

\* Entries with equal x, on lines 0 and 1, and one (y = 9) that only a
\* 16-line sprite brings to lines 0 and 1
EqualX ==
    OamOf(<<<<16, 50>>, <<17, 20>>, <<16, 50>>, <<9, 20>>, <<16, 20>>,
            <<17, 50>>, <<10, 7>>>>)

OamScanConfigs == {CrowdedLine, EqualX}

InitOam ==
    /\ CpuDefault
    /\ cartridge = CartridgeInit(0, 0, 32768)
    /\ RamDefault /\ TimerDefault /\ PpuDefault
    /\ dma = [active |-> FALSE, byte |-> 0, value |-> 0, start_delay |-> 0]
    /\ lcd_dma = 0
    /\ oam_ram \in OamScanConfigs
    /\ exited = FALSE
    /\ CpuObsDefault /\ TimerObsDefault /\ BusObsDefault /\ PpuObsDefault
    /\ IoDefault
    /\ nticks = 0

\* The guest sets LCDC (0xFF40) := 0x97 before the first tick: sprites on,
\* 16 lines high
TallSprites ==
    /\ ~exited
    /\ nticks = 0
    /\ steps = 0
    /\ Commit(LCD_write(Ctx, 65344, 151))
    /\ steps' = steps + 1
    /\ UNCHANGED <<cpu_pos, served, entry, timerObs, busObs, nticks,
                   frame_obs>>

NextOam == PpuTick \/ TallSprites

SpecOam == InitOam /\ [][NextOam]_vars

\* The OAM entries that are on the line LY
OnLine ==
    {i \in 0..39 :
         /\ OamX(Ctx, i) # 0
         /\ OamY(Ctx, i) <= lcd.ly + 16
         /\ lcd.ly + 16 < OamY(Ctx, i) + get_lcdc_obj_size(lcd)}

\* The first ten of them in OAM order
FirstTen == {i \in OnLine : Cardinality({j \in OnLine : j < i}) < 10}

\* q holds each entry of the set S once, by x ascending and in OAM order
\* among equal x
ArrangedByX(q, S) ==
    /\ Len(q) = Cardinality(S)
    /\ {q[k] : k \in 1..Len(q)} = S
    /\ \A a, b \in 1..Len(q) :
           a < b =>
               \/ OamX(Ctx, q[a]) < OamX(Ctx, q[b])
               \/ (OamX(Ctx, q[a]) = OamX(Ctx, q[b]) /\ q[a] < q[b])

\* Tick 1 of the OAM mode of the line is over
Scanned ==
    /\ ~exited
    /\ lcd.ly < Y_RES
    /\ ppu.line_ticks >= 1
    /\ get_lcds_mode(lcd) \in {MODE_OAM, MODE_XFER, MODE_HBLANK}

EqualXScanned ==
    /\ Scanned /\ lcd.ly = 1
    /\ ppu.line_sprites = <<6, 1, 3, 4, 0, 2, 5>>

(***************************************************************************)
(* The pixel FIFO (SpecPpu)                                                *)
(***************************************************************************)
\* The context pipeline_push_pixel finds in this tick: line_ticks is
\* incremented and, on an even tick, pipeline_fetch has run
BeforePop ==
    IF (ppu.line_ticks + 1) % 2 = 0
    THEN pipeline_fetch([Ctx EXCEPT !.ppu.line_ticks = @ + 1])
    ELSE [Ctx EXCEPT !.ppu.line_ticks = @ + 1]

\* The tick pops a pixel from the FIFO: every pop counts line_x up
Popped ==
    /\ nticks' = nticks + 1
    /\ get_lcds_mode(lcd) = MODE_XFER
    /\ ppu'.fifo.line_x = U8(ppu.fifo.line_x + 1)

WroteTo(lo, hi) ==
    /\ bus_op'.kind = "write"
    /\ lo <= bus_op'.address /\ bus_op'.address <= hi

\* The battery file holds what external RAM held before the access
Flushed == cartridge'.battery_file = cartridge.ext_ram[0]

\* C35 (banking-mode flush): on a write to 0x6000-0x7FFF that selects RAM
\* banking (bit 0 = 1) while the dirty flag is set, external RAM is flushed
\* to the save file before the RAM bank mapping changes.
C35_ModeFlush ==
    [][(/\ WroteTo(24576, 32767)
        /\ mbc1(cartridge)
        /\ cartridge'.ram_banking
        /\ need_save(cartridge)) => Flushed]_vars

\* A write to 0x4000-0x5FFF in RAM banking mode with the dirty flag set
\* does flush
BankSwitchFlushes ==
    [][(/\ WroteTo(16384, 24575)
        /\ mbc1(cartridge)
        /\ cartridge.ram_banking
        /\ need_save(cartridge)) => Flushed]_vars

\* C38 (dirty flag frame): a cartridge write to a banking register
\* (0x2000-0x7FFF) or to the RAM-enable latch (0x0000-0x1FFF) stores no byte
\* in external RAM and leaves the dirty flag unchanged; only a write that
\* stores into external RAM can change the flag from clear to set.
C38_DirtyFrame ==
    [][/\ WroteTo(0, 32767) =>
              /\ cartridge'.ext_ram = cartridge.ext_ram
              /\ need_save(cartridge') = need_save(cartridge)
       /\ (~need_save(cartridge) /\ need_save(cartridge')) =>
              cartridge'.ext_ram # cartridge.ext_ram]_vars

\* The part that holds: no register write stores in external RAM, and a
\* write to the RAM-enable latch leaves the flag alone
RegisterFrame ==
    [][/\ WroteTo(0, 32767) => cartridge'.ext_ram = cartridge.ext_ram
       /\ WroteTo(0, 8191) =>
              need_save(cartridge') = need_save(cartridge)]_vars

(***************************************************************************)
(* SpecBank: MBC1 cartridges of several ROM sizes                          *)
(***************************************************************************)
\* The numbers of 16 KiB banks of the images: 32 KiB, 64 KiB, 512 KiB and
\* 2 MiB
BankCounts == {2, 4, 32, 128}

InitBank ==
    /\ CpuDefault
    /\ cartridge \in {load_rom_file(CartridgeInit(1, 0, n * BankSize),
                                    CartImage(n * BankSize)) :
                          n \in BankCounts}
    /\ RamDefault /\ TimerDefault /\ DmaDefault /\ PpuDefault
    /\ exited = FALSE
    /\ CpuObsDefault /\ TimerObsDefault /\ BusObsDefault /\ PpuObsDefault
    /\ IoDefault
    /\ nticks = 0

NextBank == CartWrite \/ CartRead

SpecBank == InitBank /\ [][NextBank]_vars

\* The last access was a read of the switchable window
WindowRead ==
    /\ bus_op'.kind = "read"
    /\ 16384 <= bus_op'.address /\ bus_op'.address < 32768

\* C37 (ROM bank window inside the image): for every ROM size from 32 KiB to
\* 2 MiB and every byte written to 0x2000-0x3FFF the bank-select write
\* completes without ending the emulator, and every later read in
\* 0x4000-0x7FFF returns a byte inside the ROM image (bank base + 0x3FFF <
\* ROM size).
C37_WindowInside ==
    [][/\ WroteTo(8192, 16383) => ~exited'
       /\ ~exited' => cartridge'.rom_bank_x + 16383 < cartridge'.rom_size
       /\ WindowRead =>
              (~exited' /\ Cartridge_read(cartridge, bus_op'.address).kind
                              = "rom")]_vars

\* While the process runs the window is inside the image
WindowWhileRunning ==
    ~exited => cartridge.rom_bank_x + 16383 < cartridge.rom_size

\* With 512 KiB or more every bank-select write completes
LargeRomSelects ==
    [][(WroteTo(8192, 16383) /\ cartridge.rom_size >= 32 * BankSize)
           => ~exited']_vars

(***************************************************************************)
(* SpecIf: the guest writes the interrupt-request latch of a halted CPU    *)
(***************************************************************************)
MaxIfSteps == 3

\* The bytes the guest writes to 0xFF0F
IfBytes == {0, 1, 31, 32, 224, 255}

\* HALT at 0x0100, and NOP; HALT
IfImages == {Image(<<118>>, 256), Image(<<0, 118>>, 256)}

InitIf ==
    /\ CpuDefault
    /\ cartridge \in {load_rom_file(CartridgeInit(0, 0, 32768), image) :
                          image \in IfImages}
    /\ RamDefault /\ TimerDefault /\ DmaDefault /\ PpuDefault
    /\ exited = FALSE
    /\ CpuObsDefault /\ TimerObsDefault
    /\ nticks = 0
    /\ BusObsDefault /\ PpuObsDefault /\ IoDefault

IfExecute == StepExecuteWithin(MaxIfSteps)

\* Between two steps the guest's write to 0xFF0F arrives at io_write
IfWrite ==
    /\ ~exited
    /\ cpu_pos = "fetch"
    /\ \E data \in IfBytes :
           /\ data # int_flags
           /\ Commit(io_write(Ctx, INT_FLAGS_ADDR, data))
    /\ bus_op' = [kind |-> "write", address |-> INT_FLAGS_ADDR,
                  active |-> FALSE]
    /\ UNCHANGED <<cpuObs, timerObs, nticks, last_read, frame_obs>>

NextIf == IfExecute \/ StepInterrupts \/ IfWrite

SpecIf == InitIf /\ [][NextIf]_vars

\* C36 (IF width): in every reachable state only the low 5 bits of the
\* interrupt-request latch can be set, also after a guest write of any byte
\* to 0xFF0F, so bits 5-7 never wake a halted CPU.
C36_IfWidth ==
    [][/\ int_flags' < 32
       /\ (cpu_pos = "fetch" /\ cpu_pos' = "int" /\ halted
              /\ int_flags' % 32 = 0) => halted']_vars

\* A halted CPU was woken by a latch that holds bits 5-7 only
WokenByHighBits ==
    /\ cpu_pos = "int" /\ entry.halted /\ ~halted
    /\ int_flags = 224

\* The steps of the CPU keep the latch within its five bits
IfWidthUnwritten ==
    [][(cpu_pos' # cpu_pos /\ int_flags < 32) => int_flags' < 32]_vars

(***************************************************************************)
(* SpecDbg: the guest sends more serial bytes than dbg_msg holds           *)
(***************************************************************************)
MaxSends == 1030

\* A step whose instruction sends a byte (0xFF02 := 0x81) or, before the
\* first send, sets the byte to send (0xFF01 := 'H'); dbg_update runs before
\* the instruction.  nticks counts the sends.
DbgSend ==
    /\ ~exited
    /\ nticks < MaxSends
    /\ \E w \in {<<65281, 72>>, <<65282, 129>>} :
           /\ w[1] = 65281 => (serial_data[1] # 72 /\ nticks = 0)
           /\ Commit(io_write(dbg_update(Ctx, DmaInp), w[1], w[2]))
           /\ bus_op' = [kind |-> "write", address |-> w[1], active |-> FALSE]
           /\ nticks' = IF w[1] = 65282 THEN nticks + 1 ELSE nticks
    /\ UNCHANGED <<cpuObs, timerObs, last_read, frame_obs>>

NextDbg == DbgSend

SpecDbg == InitSerial /\ [][NextDbg]_vars

DbgNeverTakes == dbg_msg = <<>>

(***************************************************************************)
(* SpecRegs: the guest writes and reads the LCD registers                  *)
(***************************************************************************)
\* LCDC, SCY, SCX, LYC, BGP, OBP0, OBP1, WY, WX
ReadBackRegs == {65344, 65346, 65347, 65349, 65351, 65352, 65353, 65354,
                 65355}

RegBytes == {27, 228}

\* The guest's write arrives at io_write; bus_op keeps the byte written
RegWrite ==
    /\ ~exited
    /\ \E a \in ReadBackRegs, v \in RegBytes :
           /\ Commit(io_write(Ctx, a, v))
           /\ bus_op' = [kind |-> "write", address |-> a, active |-> FALSE,
                         data |-> v]
    /\ UNCHANGED <<cpuObs, timerObs, nticks, last_read, frame_obs>>

\* The guest's read arrives at io_read
RegRead ==
    /\ ~exited
    /\ \E a \in ReadBackRegs :
           /\ last_read' = io_read(Ctx, a)
           /\ bus_op' = [kind |-> "read", address |-> a, active |-> FALSE]
    /\ UNCHANGED <<cpuVars, memVars, timer, dmaVars, ppuVars, exited, cpuObs,
                   timerObs, nticks, frame_obs, clock_obs, ioVars>>

NextRegs == RegWrite \/ RegRead

SpecRegs == InitSerial /\ [][NextRegs]_vars

\* What a read of the register a returns after the step: the byte just
\* written to it, or what it returned before; and a read returns it
RegReadsBack(a) ==
    /\ WroteTo(a, a) => LCD_read(Ctx', a) = bus_op'.data
    /\ ~WroteTo(a, a) => LCD_read(Ctx', a) = LCD_read(Ctx, a)
    /\ (bus_op'.kind = "read" /\ bus_op'.address = a) =>
           last_read' = LCD_read(Ctx, a)

\* C40 (LCD register read-back): for each of LCDC, SCY, SCX, LYC, BGP, OBP0,
\* OBP1, WY and WX a read of the register after a guest write returns the
\* byte that was written, as long as no other write to that register
\* intervenes.
C40_ReadBack == [][\A a \in ReadBackRegs : RegReadsBack(a)]_vars

\* The same without the palette registers
PlainRegsReadBack ==
    [][\A a \in ReadBackRegs \ {65351, 65352, 65353} : RegReadsBack(a)]_vars

====
